---- MODULE Spec2Model ----
(***************************************************************************)
(* Model of the form-field extraction engine of src/utils/extractor.py:    *)
(* one pass of extract_all_form_fields over a page made of top-level field *)
(* containers and dynamic section groups.                                  *)
(*                                                                         *)
(* Strings are sequences of one-character strings, so that label cleaning  *)
(* and the de-duplication key are computed the way the code computes them. *)
(***************************************************************************)
EXTENDS Integers, Sequences, FiniteSets, TLC

\* The largest number of field containers a page shows before the pass.
MaxContainers == 2

----------------------------------------------------------------------------
(* Strings                                                                 *)

\* Python's None, as returned by get_attribute for a missing attribute.
None == <<"<None>">>

Unknown == <<"U", "n", "k", "n", "o", "w", "n">>

main == <<"m", "a", "i", "n">>

LowerUnknown == <<"u", "n", "k", "n", "o", "w", "n">>

\* str(x) inside an f-string: None prints as the four letters "None".
PyStr(x) == IF x = None THEN <<"N", "o", "n", "e">> ELSE x

\* `not x` for an optional string: None and "" are both falsy.
Falsy(x) == x = None \/ x = <<>>

RECURSIVE RemoveStar(_)
RemoveStar(s) ==
    IF s = <<>> THEN <<>>
    ELSE IF Head(s) = "*" THEN RemoveStar(Tail(s))
         ELSE <<Head(s)>> \o RemoveStar(Tail(s))

RECURSIVE LStrip(_)
LStrip(s) ==
    IF s = <<>> THEN <<>>
    ELSE IF Head(s) = " " THEN LStrip(Tail(s)) ELSE s

RECURSIVE RStrip(_)
RStrip(s) ==
    IF s = <<>> THEN <<>>
    ELSE IF s[Len(s)] = " " THEN RStrip(SubSeq(s, 1, Len(s) - 1)) ELSE s

\* label_text.replace("*", "").strip()
CleanLabel(label_text) == RStrip(LStrip(RemoveStar(label_text)))

----------------------------------------------------------------------------
(* The page                                                                *)

\* A field container ([data-automation-id^="formField-"]) with nothing in it.
\* Counts are what locator.count() returns; ids are attribute values or None.
Blank ==
    [ label    |-> None,    \* text of the container's <label>, None if absent
      labelFor |-> None,    \* the id the <label for=...> points at
      fs       |-> FALSE,   \* a <fieldset> is present
      legend   |-> None,    \* text of <legend><label>, None if absent
      ms       |-> FALSE,   \* a multiSelectContainer element
      msId     |-> None,
      msBtn    |-> FALSE,   \* its dropdownButton
      trig     |-> 0,       \* elements with aria-haspopup="listbox"
      trigId   |-> None,
      trigInFs |-> FALSE,   \* the trigger lies inside the fieldset
      radios   |-> 0,       \* input[type="radio"] inside the fieldset
      radioDiv |-> FALSE,   \* div[aria-labelledby] inside the fieldset
      radioId  |-> None,
      text     |-> 0,       \* input[type="text"]
      textId   |-> None,
      cb       |-> 0,       \* input[type="checkbox"]
      cbId     |-> None,
      ta       |-> 0,       \* textarea
      taId     |-> None,
      spin     |-> 0,       \* input[role="spinbutton"]
      dateWrap |-> FALSE,   \* a dateInputWrapper inside the fieldset
      dateId   |-> None,
      file     |-> FALSE,   \* an attachments-FileUpload element
      fileIn   |-> FALSE,   \* its input[type="file"]
      fileMul  |-> FALSE,   \* that input carries the attribute "multiple"
      fileId   |-> None,
      ariaReq  |-> FALSE,   \* the control carries aria-required="true"
      ariaLbl  |-> FALSE,   \* the trigger's aria-label holds "Required"
      value    |-> <<>>,    \* input_value() of the text input or textarea
      checked  |-> FALSE,   \* is_checked() of the checkbox
      month    |-> <<>>,    \* input_value() of the Month input, "" if absent
      year     |-> <<>>,    \* input_value() of the Year input, "" if absent
      trigText |-> <<>>,    \* inner_text() of the trigger, stripped
      opts     |-> <<>>,    \* the option texts of the control's choice list
      picked   |-> <<>>,    \* the pills, checked radios or uploaded files
      selBtn   |-> None ]   \* id of the select-files button, None if absent

TextShape ==
    [Blank EXCEPT !.label = <<"a", "*">>, !.labelFor = <<"t">>,
                  !.text = 1, !.textId = <<"t">>]

\* A button-activated dropdown drawn as a fieldset: legend, trigger, the
\* radio inputs that back it, and a hidden text input.
DropdownShape ==
    [Blank EXCEPT !.fs = TRUE, !.legend = <<"d", "*">>,
                  !.trig = 1, !.trigId = <<"b">>, !.trigInFs = TRUE,
                  !.radios = 2, !.radioDiv = TRUE, !.radioId = <<"r">>,
                  !.text = 1, !.textId = <<"h">>]

\* A radio fieldset next to a dropdown trigger of the same container.
RadioBesideTriggerShape ==
    [Blank EXCEPT !.fs = TRUE, !.legend = <<"q">>,
                  !.label = <<"c">>, !.labelFor = <<"b">>,
                  !.trig = 1, !.trigId = <<"b">>, !.trigInFs = FALSE,
                  !.radios = 2, !.radioDiv = TRUE, !.radioId = <<"r">>]

MultiSelectShape ==
    [Blank EXCEPT !.label = <<"s">>, !.ms = TRUE, !.msId = <<"m">>,
                  !.msBtn = TRUE]

TextareaShape ==
    [Blank EXCEPT !.label = <<"x">>, !.labelFor = <<"y">>,
                  !.ta = 1, !.taId = <<"y">>]

DateShape ==
    [Blank EXCEPT !.fs = TRUE, !.legend = <<"e">>, !.spin = 2,
                  !.dateWrap = TRUE, !.dateId = <<"w">>]

\* The field containers pages are built from.
Shapes ==
    { TextShape, DropdownShape, RadioBesideTriggerShape, MultiSelectShape,
      TextareaShape, DateShape }

\* The dynamic section groups of the page, in document order: their h3
\* headers carry ids ending in "-section".
Sections == {1, 2}

LastSection == CHOOSE s \in Sections : \A t \in Sections : t <= s

\* header.inner_text() of a section header.
Title(s) == IF s = 1 THEN <<"W">> ELSE <<"E">>

Digit(n) == <<CHOOSE d \in {"0", "1", "2", "3", "4", "5", "6", "7", "8", "9"} :
                  d = ToString(n)>>

\* The one field container of instance n of section s: a text input whose
\* id embeds the instance's ordinal ("workExperience-1--jobTitle").
InstanceShape(s, n) ==
    LET id == Title(s) \o <<"-">> \o Digit(n)
    IN  [Blank EXCEPT !.label = <<"j">>, !.labelFor = id,
                      !.text = 1, !.textId = id]

\* A section as the page shows it:
\*   group - div[role="group"][aria-labelledby=<header id>] exists
\*   add   - the group holds an add-button
\*   inst  - how many instances the group shows
SectionStates ==
    { [group |-> FALSE, add |-> FALSE, inst |-> 0],
      [group |-> TRUE,  add |-> TRUE,  inst |-> 0],
      [group |-> TRUE,  add |-> TRUE,  inst |-> 1],
      [group |-> TRUE,  add |-> FALSE, inst |-> 1] }

\* Where a field container sits: <<"top", 0, i>> is the i-th top-level
\* container, <<"sec", s, n>> the container of instance n of section s.
TopLoc(i) == <<"top", 0, i>>

SecLoc(s, n) == <<"sec", s, n>>

InSection(loc) == loc[1] = "sec"

RECURSIVE SecLocs(_, _, _)
SecLocs(pg, s, n) ==
    IF n > pg.secs[s].inst THEN <<>>
    ELSE <<SecLoc(s, n)>> \o SecLocs(pg, s, n + 1)

RECURSIVE AllSecLocs(_, _)
AllSecLocs(pg, s) ==
    IF s \notin Sections THEN <<>>
    ELSE SecLocs(pg, s, 1) \o AllSecLocs(pg, s + 1)

\* page.locator(FORM_FIELD_SELECTOR).all(): every field container of the
\* page in document order, those inside section groups included.
FormFieldContainers(pg) ==
    [i \in 1..Len(pg.top) |-> TopLoc(i)] \o AllSecLocs(pg, 1)

\* section_container.locator(FORM_FIELD_SELECTOR).all()
SectionFormFields(pg, s) == SecLocs(pg, s, 1)

ContainerAt(pg, loc) ==
    IF InSection(loc) THEN InstanceShape(loc[2], loc[3]) ELSE pg.top[loc[3]]

----------------------------------------------------------------------------
(* Field descriptors and the single-field extractors                       *)

\* A FormField.  src is not part of the program's record: it names the field
\* container the descriptor was read from, and by is the extractor that read it.
Field(label, id, kind, loc, by) ==
    [ label        |-> label,
      id           |-> id,
      type_of_input |-> kind,
      section_name |-> <<>>,
      required     |-> FALSE,
      options      |-> <<>>,
      user_data_select_values |-> <<>>,
      src          |-> loc,
      by           |-> by ]

\* The dictionary an extractor builds, with its required flag, its options
\* and its current values.
Described(f, is_required, options, values) ==
    [f EXCEPT !.required = is_required, !.options = options,
              !.user_data_select_values = values]

\* "*" in label_text
HasStar(label_text) == \E i \in 1..Len(label_text) : label_text[i] = "*"

\* [x] if x else []
ListIf(x) == IF x = <<>> THEN <<>> ELSE <<x>>

Yes == <<"Y", "e", "s">>

No == <<"N", "o">>

SelectFile == <<"S", "e", "l", "e", "c", "t", " ", "f", "i", "l", "e">>

DropFile == <<"D", "r", "o", "p", " ", "f", "i", "l", "e">>

WithSection(f, name) == [f EXCEPT !.section_name = name]

\* container.locator(f'label[for="{input_id}"]'): the label's text, or
\* "Unknown" when no label points at input_id.
LabelFor(c, input_id) ==
    IF c.label # None /\ c.labelFor # None /\ c.labelFor = PyStr(input_id)
    THEN c.label ELSE Unknown

\* Each single-field extractor yields <<>> for Python's None and <<field>>
\* otherwise.

extract_single_dropdown_button_field(c, loc, by) ==
    LET input_id == c.trigId
        label_text == IF c.fs
                      THEN (IF c.legend # None THEN c.legend ELSE Unknown)
                      ELSE LabelFor(c, input_id)
    IN  IF Falsy(input_id) THEN <<>>
        ELSE <<Described(
                 Field(CleanLabel(label_text), input_id, "dropdown-button",
                       loc, by),
                 HasStar(label_text) \/ c.ariaReq \/ c.ariaLbl,
                 <<>>,
                 ListIf(c.trigText))>>

extract_single_text_field(c, loc, by) ==
    LET label_text == LabelFor(c, c.textId)
    IN  <<Described(
            Field(CleanLabel(label_text), c.textId, "text", loc, by),
            HasStar(label_text) \/ c.ariaReq,
            <<>>,
            ListIf(c.value))>>

\* A checkbox extractor that reports "Yes" whatever the state of the input.
checkbox_field_always_yes(c, loc, by) ==
    LET label_text == LabelFor(c, c.cbId)
    IN  <<Described(
            Field(CleanLabel(label_text), c.cbId, "checkbox", loc, by),
            HasStar(label_text) \/ c.ariaReq,
            <<Yes, No>>,
            <<Yes>>)>>

extract_single_checkbox_field(c, loc, by) ==
    LET label_text == LabelFor(c, c.cbId)
    IN  <<Described(
            Field(CleanLabel(label_text), c.cbId, "checkbox", loc, by),
            HasStar(label_text) \/ c.ariaReq,
            <<Yes, No>>,
            <<IF c.checked THEN Yes ELSE No>>)>>

extract_single_textarea_field(c, loc, by) ==
    LET label_text == LabelFor(c, c.taId)
    IN  <<Described(
            Field(CleanLabel(label_text), c.taId, "textarea", loc, by),
            HasStar(label_text) \/ c.ariaReq,
            <<>>,
            ListIf(c.value))>>

\* A date extractor that builds the value as soon as one part is filled.
date_field_any_part(c, loc, by) ==
    LET label_text == IF c.legend # None THEN c.legend
                      ELSE <<"D", "a", "t", "e">>
        wrapper_id == IF c.dateWrap THEN c.dateId ELSE LowerUnknown
        current_value == IF c.month # <<>> \/ c.year # <<>>
                         THEN c.month \o <<"/">> \o c.year ELSE <<>>
    IN  IF ~c.fs THEN <<>>
        ELSE <<Described(
                 Field(CleanLabel(label_text), wrapper_id, "date", loc, by),
                 HasStar(label_text),
                 <<>>,
                 ListIf(current_value))>>

extract_single_date_field(c, loc, by) ==
    LET label_text == IF c.legend # None THEN c.legend
                      ELSE <<"D", "a", "t", "e">>
        wrapper_id == IF c.dateWrap THEN c.dateId ELSE LowerUnknown
        current_value == IF c.month # <<>> /\ c.year # <<>>
                         THEN c.month \o <<"/">> \o c.year ELSE <<>>
    IN  IF ~c.fs THEN <<>>
        ELSE <<Described(
                 Field(CleanLabel(label_text), wrapper_id, "date", loc, by),
                 HasStar(label_text),
                 <<>>,
                 ListIf(current_value))>>

FileUploadLabel == <<"F", "i", "l", "e", " ", "U", "p", "l", "o", "a", "d">>

extract_single_file_upload_field(c, loc, by) ==
    LET label_text == IF c.label # None THEN c.label ELSE FileUploadLabel
        found      == IF c.fileIn THEN c.fileId ELSE LowerUnknown
        input_id   == IF Falsy(found) /\ c.selBtn # None THEN c.selBtn
                      ELSE found
    IN  <<Described(
            Field(CleanLabel(label_text),
                  IF Falsy(input_id) THEN LowerUnknown ELSE input_id,
                  IF c.fileIn /\ c.fileMul THEN "multiple-file"
                  ELSE "single-file",
                  loc, by),
            HasStar(label_text),
            <<SelectFile, DropFile>>,
            c.picked)>>

----------------------------------------------------------------------------
(* Exceptions                                                              *)

\* The try blocks that enclose a place of the code, innermost first.
\*   "options"    the try around the popup read of a dropdown button
\*   "container"  the try inside an extractor's loop over containers
\*   "extractor"  the try around the body of an extractor
\*   "header"     the try inside the loop over section headers
\*   "dynamic"    the try around the body of extract_dynamic_section_fields
\*   "aggregator" the try of extract_all_form_fields around the call
TryBlocks(ex, site) ==
    CASE ex \in {"textarea", "date"} -> <<"extractor", "aggregator">>
      [] ex = "section" ->
            <<"extractor", "header", "dynamic", "aggregator">>
      [] ex = "dynamic" ->
            IF site = "header" THEN <<"header", "dynamic", "aggregator">>
            ELSE <<"dynamic", "aggregator">>
      [] OTHER ->
            CASE site = "options" ->
                    <<"options", "container", "extractor", "aggregator">>
              [] site = "container" ->
                    <<"container", "extractor", "aggregator">>
              [] OTHER -> <<"extractor", "aggregator">>

\* Except clauses that log and raise again.
HandlesNone(block) == FALSE

\* Every except clause is "except Exception as e" followed by a logging
\* call: it ends the exception.
Handles(block) == TRUE

\* The try block whose except clause ends an exception raised under `chain`,
\* "raised" when it leaves extract_all_form_fields.
RECURSIVE Landing(_)
Landing(chain) ==
    IF chain = <<>> THEN "raised"
    ELSE IF Handles(Head(chain)) THEN Head(chain)
         ELSE Landing(Tail(chain))

----------------------------------------------------------------------------
(* The kind-specific extractors on one container                           *)

base_extractors ==
    << "multiselect", "button_dropdown", "radio", "text", "checkbox",
       "textarea", "date", "file_upload" >>

\* What the extractor reads from the element at `loc`, the idx-th of its
\* batch (counted from 0): out is <<>> or <<field>>, fail says that the
\* page makes one of its calls raise.
Skip == [out |-> <<>>, fail |-> FALSE]

Raise == [out |-> <<>>, fail |-> TRUE]

Emit(fs) == [out |-> fs, fail |-> FALSE]

\* field["options"] = ... on the field a single-field extractor returned.
WithOptions(fs, options) ==
    [i \in 1..Len(fs) |-> [fs[i] EXCEPT !.options = options]]

MainField(fs) == [i \in 1..Len(fs) |-> WithSection(fs[i], main)]

RadioOne(c, loc) ==
    IF c.trig > 0 /\ c.trigInFs THEN Skip
    ELSE IF c.radios = 0 THEN Skip
    ELSE IF ~c.radioDiv THEN Raise
    ELSE LET label_text == IF c.legend # None THEN c.legend ELSE Unknown
         IN  Emit(MainField(
                <<Described(
                    Field(CleanLabel(label_text),
                          IF Falsy(c.radioId) THEN LowerUnknown ELSE c.radioId,
                          "radio", loc, "radio"),
                    HasStar(label_text) \/ c.ariaReq,
                    c.opts,
                    c.picked)>>))

TextOne(c, loc) ==
    IF c.text = 0 THEN Skip
    ELSE IF c.text > 1 THEN Raise
    ELSE Emit(MainField(extract_single_text_field(c, loc, "text")))

CheckboxOne(c, loc) ==
    IF c.cb = 0 THEN Skip
    ELSE IF c.cb > 1 THEN Raise
    ELSE Emit(MainField(extract_single_checkbox_field(c, loc, "checkbox")))

TextareaOne(c, loc) ==
    IF c.ta = 0 THEN Skip
    ELSE IF c.ta > 1 THEN Raise
    ELSE Emit(MainField(extract_single_textarea_field(c, loc, "textarea")))

DateOne(c, loc) ==
    IF c.spin = 0 THEN Skip
    ELSE Emit(MainField(extract_single_date_field(c, loc, "date")))

FileUploadPrefix ==
    <<"f", "i", "l", "e", "-", "u", "p", "l", "o", "a", "d", "-">>

FileOne(c, loc, idx) ==
    LET synth      == FileUploadPrefix \o Digit(idx)
        label_text == IF c.label # None THEN c.label ELSE FileUploadLabel
        found      == IF c.fileIn THEN c.fileId ELSE synth
        input_id   == IF Falsy(found) /\ c.selBtn # None THEN c.selBtn
                      ELSE found
    IN  Emit(MainField(
            <<Described(
                Field(CleanLabel(label_text),
                      IF Falsy(input_id) THEN synth ELSE input_id,
                      IF c.fileIn /\ c.fileMul THEN "multiple-file"
                      ELSE "single-file",
                      loc, "file_upload"),
                HasStar(label_text),
                <<SelectFile, DropFile>>,
                c.picked)>>))

MultiselectOne(c, loc) ==
    LET label_text == IF c.label # None THEN c.label ELSE Unknown
    IN  Emit(MainField(
            <<Described(
                Field(CleanLabel(label_text), c.msId, "multi-select", loc,
                      "multiselect"),
                HasStar(label_text) \/ c.ariaReq,
                IF c.msBtn THEN c.opts ELSE <<>>,
                c.picked)>>))

DropdownOne(c, loc) ==
    IF c.trig = 0 THEN Skip
    ELSE IF c.trig > 1 THEN Raise
    ELSE Emit(MainField(
            WithOptions(
                extract_single_dropdown_button_field(c, loc, "button_dropdown"),
                c.opts)))

\* One iteration of extract_section_specific_fields: the first test of the
\* chain that yields a field decides.
SectionOne(c, loc, section_name) ==
    LET dd   == IF c.trig > 0
                THEN extract_single_dropdown_button_field(c, loc, "section")
                ELSE <<>>
        txt  == IF dd = <<>> /\ c.text > 0
                THEN extract_single_text_field(c, loc, "section") ELSE dd
        cbx  == IF txt = <<>> /\ c.cb > 0
                THEN extract_single_checkbox_field(c, loc, "section") ELSE txt
        txa  == IF cbx = <<>> /\ c.ta > 0
                THEN extract_single_textarea_field(c, loc, "section") ELSE cbx
        dat  == IF txa = <<>> /\ c.spin > 0
                THEN extract_single_date_field(c, loc, "section") ELSE txa
        fil  == IF dat = <<>> /\ c.file
                THEN extract_single_file_upload_field(c, loc, "section")
                ELSE dat
    IN  IF c.trig > 1 \/ (dd = <<>> /\ c.text > 1) THEN Raise
        ELSE Emit([i \in 1..Len(fil) |-> WithSection(fil[i], section_name)])

One(ex, c, loc, idx, section_name) ==
    CASE ex = "radio"       -> RadioOne(c, loc)
      [] ex = "text"        -> TextOne(c, loc)
      [] ex = "checkbox"    -> CheckboxOne(c, loc)
      [] ex = "textarea"    -> TextareaOne(c, loc)
      [] ex = "date"        -> DateOne(c, loc)
      [] ex = "file_upload" -> FileOne(c, loc, idx)
      [] ex = "section"     -> SectionOne(c, loc, section_name)

\* The elements an extractor iterates over, in document order.
Elements(ex, pg) ==
    LET all == FormFieldContainers(pg)
    IN  CASE ex = "multiselect" ->
                SelectSeq(all, LAMBDA l : ContainerAt(pg, l).ms)
          [] ex = "radio" ->
                SelectSeq(all, LAMBDA l : ContainerAt(pg, l).fs)
          [] ex = "file_upload" ->
                SelectSeq(all, LAMBDA l : ContainerAt(pg, l).file)
          [] OTHER -> all

\* The loop of an extractor over `locs` from its i-th element on, when the
\* calls on the elements whose index is in F raise.  results are the fields
\* appended, visited the elements whose iteration started, outcome is
\* "return" when the extractor returns its results and else the try block the
\* exception landed in.
RECURSIVE RunLoop(_, _, _, _, _, _)
RunLoop(ex, pg, locs, F, i, section_name) ==
    IF i > Len(locs)
    THEN [results |-> <<>>, visited |-> {}, outcome |-> "return"]
    ELSE LET loc  == locs[i]
             r    == One(ex, ContainerAt(pg, loc), loc, i - 1, section_name)
             land == Landing(TryBlocks(ex, "container"))
             rest == RunLoop(ex, pg, locs, F, i + 1, section_name)
         IN  IF i \in F \/ r.fail
             THEN IF land = "container"
                  THEN [rest EXCEPT !.visited = @ \cup {loc}]
                  ELSE [results |-> <<>>, visited |-> {loc},
                        outcome |-> IF land = "extractor" THEN "return"
                                    ELSE land]
             ELSE [results |-> r.out \o rest.results,
                   visited |-> rest.visited \cup {loc},
                   outcome |-> rest.outcome]

\* field_key = f"{field['label']}_{field['id_of_input_component']}"
field_key(f) == f.label \o <<"_">> \o PyStr(f.id)

\* A loop that appends the fields whose key was not seen before the loop,
\* and never adds a key to seen_labels.
MergeWithoutAdd(fields, all, seen) ==
    [all  |-> all \o SelectSeq(fields, LAMBDA f : field_key(f) \notin seen),
     seen |-> seen]

\* The aggregator's loop over the fields an extractor returned: a field is
\* appended unless its key was seen.
RECURSIVE Merge(_, _, _)
Merge(fields, all, seen) ==
    IF fields = <<>> THEN [all |-> all, seen |-> seen]
    ELSE LET k == field_key(Head(fields))
         IN  IF k \notin seen
             THEN Merge(Tail(fields), Append(all, Head(fields)), seen \cup {k})
             ELSE Merge(Tail(fields), all, seen)

----------------------------------------------------------------------------
(* One pass of extract_all_form_fields                                     *)

VARIABLES
    page,               \* [top: the top-level containers, secs: the sections]
    popup,              \* the container whose option popup is open, or Closed
    pc,                 \* where the pass stands
    ei,                 \* index of the base extractor in base_extractors
    ci,                 \* index of the element in the running extractor's batch
    results,            \* the running extractor's results
    all_results,        \* extract_all_form_fields: all_results
    seen_labels,        \* extract_all_form_fields: seen_labels
    hi,                 \* the section header being handled
    section_title,      \* extract_dynamic_section_fields: section_title
    sectioned_results,  \* extract_dynamic_section_fields: sectioned_results
    \* what happened so far, kept to state the properties
    produced,           \* every field the extractors returned, in order
    called,             \* the extractors called so far
    unvisited,          \* the elements of the batch of the extractor that
                        \* just ended whose iteration never started
    handled,            \* the section headers whose iteration started
    clicks,             \* per section, the clicks on its add control
    fresh,              \* per section, the instance a click materialized, or 0
    waited,             \* the sections whose wait for a field container ended
    raisedIn,           \* the sections during whose handling a call raised
    faulted,            \* a call on the page has raised during this pass
    \* extract_all_steps_sequentially and extract_application_steps
    wpc,                \* where extract_all_steps_sequentially stands
    progress,           \* the items of the page's progress bar
    steps_data,         \* extract_application_steps: steps_data
    si,                 \* index of the step in the loop over steps
    all_step_data,      \* extract_all_steps_sequentially: all_step_data
    invoked,            \* the steps the aggregator was invoked for, each with
                        \* the list it returned
    stepsFailed,        \* reading a progress item has raised
    \* two passes in a row
    pass,               \* the ordinal of the running pass
    first,              \* the list the first pass returned
    \* a call of the orchestration, of the login or of a filler
    mpc,                \* where the call stands
    args,               \* what the call is given: its arguments, the
                        \* configuration, and what the page will answer
    trace,              \* what the call did to the browser, in order
    ret,                \* what the call returned
    stepNo              \* main: the index of the step in the loop over steps

walkerVars ==
    << wpc, progress, steps_data, si, all_step_data, invoked, stepsFailed >>

twiceVars == << pass, first >>

callVars == << mpc, args, trace, ret, stepNo >>

driverVars == << walkerVars, twiceVars, callVars >>

vars ==
    << page, popup, pc, ei, ci, results, all_results, seen_labels, hi,
       section_title, sectioned_results, produced, called, unvisited,
       handled, clicks, fresh, waited, raisedIn, faulted, driverVars >>

Closed == <<"closed", 0, 0>>

Unbound == <<"<unbound>">>

RECURSIVE SeqsUpTo(_, _)
SeqsUpTo(S, n) ==
    IF n = 0 THEN {<<>>}
    ELSE LET shorter == SeqsUpTo(S, n - 1)
         IN  shorter \cup {Append(q, x) : q \in shorter, x \in S}

\* A function that has not returned.
Pending == "pending"

\* No call of the orchestration, of the login or of a filler.
NoCall ==
    /\ mpc = "off"
    /\ args = <<>>
    /\ trace = <<>>
    /\ ret = Pending
    /\ stepNo = 0

\* No driver: the pass is a single call of extract_all_form_fields.
NoDriver ==
    /\ NoCall
    /\ wpc = "off"
    /\ progress = <<>>
    /\ steps_data = <<>>
    /\ si = 0
    /\ all_step_data = <<>>
    /\ invoked = <<>>
    /\ stepsFailed = FALSE
    /\ pass = 1
    /\ first = <<>>

Init ==
    /\ page \in [top : SeqsUpTo(Shapes, MaxContainers),
                 secs : [Sections -> SectionStates]]
    /\ Len(FormFieldContainers(page)) <= MaxContainers
    /\ NoDriver
    /\ popup = Closed
    /\ pc = "agg"
    /\ ei = 1
    /\ ci = 0
    /\ results = <<>>
    /\ all_results = <<>>
    /\ seen_labels = {}
    /\ hi = 0
    /\ section_title = Unbound
    /\ sectioned_results = <<>>
    /\ produced = <<>>
    /\ called = {}
    /\ unvisited = {}
    /\ handled = {}
    /\ clicks = [s \in Sections |-> 0]
    /\ fresh = [s \in Sections |-> 0]
    /\ waited = {}
    /\ raisedIn = {}
    /\ faulted = FALSE

Extractor == base_extractors[ei]

Batch == Elements(Extractor, page)

Range(q) == {q[i] : i \in 1..Len(q)}

aggregatorVars == <<all_results, seen_labels, produced>>

dynamicVars ==
    << hi, section_title, sectioned_results, handled, clicks, fresh, waited,
       raisedIn >>

\* Where an extractor goes when an exception of its own lands in `land`:
\* it returns what it has, or the aggregator drops its contribution, or the
\* exception leaves extract_all_form_fields.
ExtractorExit(land, kept) ==
    /\ pc' = IF land = "raised" THEN "raised" ELSE "ret"
    /\ results' = IF land = "extractor" THEN kept ELSE <<>>
    /\ ci' = 0

\* extract_multiselect_fields and extract_button_dropdown_fields up to the
\* start of their loops: the batch is listed, or the listing raises.
CallLoopExtractor ==
    /\ pc = "agg"
    /\ UNCHANGED driverVars
    /\ ei <= Len(base_extractors)
    /\ Extractor \in {"multiselect", "button_dropdown"}
    /\ called' = called \cup {Extractor}
    /\ \E listing_raises \in BOOLEAN :
          IF listing_raises
          THEN /\ ExtractorExit(Landing(TryBlocks(Extractor, "list")), <<>>)
               /\ faulted' = TRUE
          ELSE /\ results' = <<>>
               /\ IF Batch = <<>>
                  THEN pc' = "ret" /\ ci' = 0
                  ELSE pc' = "loop" /\ ci' = 1
               /\ UNCHANGED faulted
    /\ unvisited' = {}
    /\ UNCHANGED <<page, popup, ei>>
    /\ UNCHANGED aggregatorVars
    /\ UNCHANGED dynamicVars

\* After the iteration on element ci.
NextElement ==
    /\ IF ci < Len(Batch) THEN pc' = "loop" /\ ci' = ci + 1
       ELSE pc' = "ret" /\ ci' = 0
    /\ unvisited' = {}

\* The elements of the batch after element ci.
Remaining == {Batch[i] : i \in (ci + 1)..Len(Batch)}

\* An exception in the loop of the running extractor, raised at `site`.
LoopException(site) ==
    LET land == Landing(TryBlocks(Extractor, site))
    IN  /\ faulted' = TRUE
        /\ IF land = "container"
           THEN NextElement /\ UNCHANGED results
           ELSE ExtractorExit(land, results) /\ unvisited' = Remaining

\* One iteration of the loop of extract_multiselect_fields.
MultiselectContainer ==
    /\ pc = "loop"
    /\ UNCHANGED driverVars
    /\ Extractor = "multiselect"
    /\ LET loc == Batch[ci]
           c   == ContainerAt(page, loc)
       IN  /\ \/ \* the attribute reads raise
                 /\ LoopException("container")
                 /\ UNCHANGED popup
              \/ \* the first click opened the popup, and the wait for the
                 \* options or the second click raises
                 /\ c.msBtn
                 /\ popup' = loc
                 /\ LoopException("container")
              \/ \* no call raises
                 /\ popup' = IF c.msBtn THEN Closed ELSE popup
                 /\ results' = results \o MultiselectOne(c, loc).out
                 /\ NextElement
                 /\ UNCHANGED faulted
    /\ UNCHANGED <<page, ei, called>>
    /\ UNCHANGED aggregatorVars
    /\ UNCHANGED dynamicVars

\* One iteration of the loop of extract_button_dropdown_fields.
DropdownContainer ==
    /\ pc = "loop"
    /\ UNCHANGED driverVars
    /\ Extractor = "button_dropdown"
    /\ LET loc  == Batch[ci]
           c    == ContainerAt(page, loc)
           r    == DropdownOne(c, loc)
       IN  /\ \/ \* count() or extract_single_dropdown_button_field raises
                 /\ LoopException("container")
                 /\ UNCHANGED popup
              \/ /\ r.fail
                 /\ LoopException("container")
                 /\ UNCHANGED popup
              \/ \* no field: continue
                 /\ ~r.fail /\ r.out = <<>>
                 /\ NextElement
                 /\ UNCHANGED <<results, popup, faulted>>
              \/ \* the field is read, and the popup read runs through
                 /\ ~r.fail /\ r.out # <<>>
                 /\ popup' = Closed
                 /\ results' = results \o r.out
                 /\ NextElement
                 /\ UNCHANGED faulted
              \/ \* the field is read, the click opened the popup, and the
                 \* wait for the first option raises
                 /\ ~r.fail /\ r.out # <<>>
                 /\ popup' = loc
                 /\ faulted' = TRUE
                 /\ LET land == Landing(TryBlocks(Extractor, "options"))
                    IN  IF land = "options"
                        THEN /\ results' = results \o WithOptions(r.out, <<>>)
                             /\ NextElement
                        ELSE IF land = "container"
                        THEN NextElement /\ UNCHANGED results
                        ELSE /\ ExtractorExit(land, results)
                             /\ unvisited' = Remaining
    /\ UNCHANGED <<page, ei, called>>
    /\ UNCHANGED aggregatorVars
    /\ UNCHANGED dynamicVars

\* A whole call of extract_radio_fields, extract_text_fields,
\* extract_checkbox_fields, extract_textarea_fields, extract_date_fields or
\* extract_file_upload_fields: these change nothing on the page.
CallPlainExtractor ==
    /\ pc = "agg"
    /\ UNCHANGED driverVars
    /\ ei <= Len(base_extractors)
    /\ Extractor \notin {"multiselect", "button_dropdown"}
    /\ called' = called \cup {Extractor}
    /\ \/ \* the listing raises
          /\ ExtractorExit(Landing(TryBlocks(Extractor, "list")), <<>>)
          /\ faulted' = TRUE
          /\ unvisited' = {}
       \/ \E F \in SUBSET (1..Len(Batch)) :
             LET run == RunLoop(Extractor, page, Batch, F, 1, main)
             IN  /\ unvisited' = Range(Batch) \ run.visited
                 /\ faulted' = (faulted \/ F # {})
                 /\ ExtractorExit(IF run.outcome = "return" THEN "extractor"
                                  ELSE run.outcome,
                                  run.results)
    /\ UNCHANGED <<page, popup, ei>>
    /\ UNCHANGED aggregatorVars
    /\ UNCHANGED dynamicVars

\* The aggregator's loop over the fields the extractor returned.
MergeResults ==
    /\ pc = "ret"
    /\ UNCHANGED driverVars
    /\ LET m == Merge(results, all_results, seen_labels)
       IN  /\ all_results' = m.all
           /\ seen_labels' = m.seen
    /\ produced' = produced \o results
    /\ results' = <<>>
    /\ ei' = ei + 1
    /\ pc' = "agg"
    /\ unvisited' = {}
    /\ UNCHANGED <<page, popup, ci, called, faulted>>
    /\ UNCHANGED dynamicVars

\* Where extract_dynamic_section_fields goes when an exception lands outside
\* its loop: it returns what it has, or the aggregator drops its
\* contribution, or the exception leaves extract_all_form_fields.
DynamicExit(land) ==
    pc' = CASE land = "dynamic"    -> "dynret"
            [] land = "aggregator" -> "done"
            [] OTHER               -> "raised"

NextHeader ==
    IF hi < LastSection THEN pc' = "hdr" /\ hi' = hi + 1
    ELSE pc' = "dynret" /\ hi' = hi

\* An exception while header hi is handled.  The except clause of the loop
\* logs section_title: while that name is unbound the clause itself raises,
\* and the exception goes on to the enclosing try.
HeaderException ==
    LET land == Landing(IF section_title' = Unbound
                        THEN TryBlocks("dynamic", "body")
                        ELSE TryBlocks("dynamic", "header"))
    IN  /\ faulted' = TRUE
        /\ raisedIn' = raisedIn \cup {hi}
        /\ IF land = "header" THEN NextHeader
           ELSE DynamicExit(land) /\ hi' = hi

\* extract_all_form_fields after the base extractors, and
\* extract_dynamic_section_fields up to the start of its loop.
CallDynamic ==
    /\ pc = "agg"
    /\ UNCHANGED driverVars
    /\ ei > Len(base_extractors)
    /\ called' = called \cup {"dynamic"}
    /\ \/ \* listing the section headers raises
          /\ DynamicExit(Landing(TryBlocks("dynamic", "body")))
          /\ faulted' = TRUE
          /\ UNCHANGED hi
       \/ /\ pc' = "hdr"
          /\ hi' = CHOOSE s \in Sections : \A t \in Sections : s <= t
          /\ UNCHANGED faulted
    /\ unvisited' = {}
    /\ UNCHANGED <<page, popup, ei, ci, results>>
    /\ UNCHANGED <<section_title, sectioned_results, handled, clicks, fresh,
                   waited, raisedIn>>
    /\ UNCHANGED aggregatorVars

\* One iteration of the loop over the section headers, up to the click.
Header ==
    /\ pc = "hdr"
    /\ UNCHANGED driverVars
    /\ handled' = handled \cup {hi}
    /\ \/ \* reading the header's id or its title raises
          /\ section_title' = section_title
          /\ HeaderException
       \/ \* the group is missing, or holds no add control: nothing to do
          /\ section_title' = Title(hi)
          /\ ~page.secs[hi].group \/ ~page.secs[hi].add
          /\ NextHeader
          /\ UNCHANGED <<faulted, raisedIn>>
       \/ \* counting the group or its add control raises
          /\ section_title' = Title(hi)
          /\ HeaderException
       \/ /\ section_title' = Title(hi)
          /\ page.secs[hi].group /\ page.secs[hi].add
          /\ pc' = "click"
          /\ UNCHANGED <<hi, faulted, raisedIn>>
    /\ unvisited' = {}
    /\ UNCHANGED <<page, popup, ei, ci, results, called>>
    /\ UNCHANGED <<sectioned_results, clicks, fresh, waited>>
    /\ UNCHANGED aggregatorVars

\* add_button.click(): the page answers with a new instance of the section,
\* or with none within the waits that follow.
ClickAdd ==
    /\ pc = "click"
    /\ UNCHANGED driverVars
    /\ \/ \* the click raises
          /\ section_title' = section_title
          /\ HeaderException
          /\ UNCHANGED <<page, clicks, fresh>>
       \/ \E appears \in BOOLEAN :
             LET n == page.secs[hi].inst + 1
             IN  /\ clicks' = [clicks EXCEPT ![hi] = @ + 1]
                 /\ page' = IF appears
                            THEN [page EXCEPT !.secs[hi].inst = n]
                            ELSE page
                 /\ fresh' = IF appears THEN [fresh EXCEPT ![hi] = n]
                             ELSE fresh
                 /\ pc' = "wait"
                 /\ UNCHANGED <<hi, section_title, faulted, raisedIn>>
    /\ unvisited' = {}
    /\ UNCHANGED <<popup, ei, ci, results, called>>
    /\ UNCHANGED <<sectioned_results, handled, waited>>
    /\ UNCHANGED aggregatorVars

\* page.wait_for_selector(FORM_FIELD_SELECTOR, timeout=5000): it ends as soon
\* as the page holds a field container, anywhere, and raises a timeout else.
WaitSucceeds(pg) == FormFieldContainers(pg) # <<>>

\* The two waits after the click, and what follows them.
WaitForFields ==
    /\ pc = "wait"
    /\ UNCHANGED driverVars
    /\ section_title' = section_title
    /\ \/ /\ WaitSucceeds(page)
          /\ waited' = waited \cup {hi}
          /\ pc' = "sect"
          /\ UNCHANGED <<hi, faulted, raisedIn>>
       \/ \* the timeout elapses, or one of the two waits raises
          /\ HeaderException
          /\ UNCHANGED waited
    /\ unvisited' = {}
    /\ UNCHANGED <<page, popup, ei, ci, results, called>>
    /\ UNCHANGED <<sectioned_results, handled, clicks, fresh>>
    /\ UNCHANGED aggregatorVars

\* extract_section_specific_fields on the group of header hi, and the
\* extend of sectioned_results by what it returns.
SectionFields ==
    /\ pc = "sect"
    /\ UNCHANGED driverVars
    /\ section_title' = section_title
    /\ LET locs == SectionFormFields(page, hi)
       IN  \/ \* the listing raises
              /\ faulted' = TRUE
              /\ unvisited' = {}
              /\ LET land == Landing(TryBlocks("section", "list"))
                 IN  IF land \in {"extractor", "header"}
                     THEN NextHeader ELSE DynamicExit(land) /\ hi' = hi
              /\ UNCHANGED <<sectioned_results, raisedIn>>
           \/ \E F \in SUBSET (1..Len(locs)) :
                 LET run == RunLoop("section", page, locs, F, 1, section_title)
                 IN  /\ unvisited' = Range(locs) \ run.visited
                     /\ faulted' = (faulted \/ F # {})
                     /\ sectioned_results' =
                           IF run.outcome = "return"
                           THEN sectioned_results \o run.results
                           ELSE sectioned_results
                     /\ IF run.outcome \in {"return", "header"}
                        THEN NextHeader
                        ELSE DynamicExit(run.outcome) /\ hi' = hi
                     /\ UNCHANGED raisedIn
    /\ UNCHANGED <<page, popup, ei, ci, results, called>>
    /\ UNCHANGED <<handled, clicks, fresh, waited>>
    /\ UNCHANGED aggregatorVars

\* extract_dynamic_section_fields returns, and the aggregator loops over
\* the fields it returned.
ReturnDynamic ==
    /\ pc = "dynret"
    /\ UNCHANGED driverVars
    /\ LET m == Merge(sectioned_results, all_results, seen_labels)
       IN  /\ all_results' = m.all
           /\ seen_labels' = m.seen
    /\ produced' = produced \o sectioned_results
    /\ pc' = "done"
    /\ unvisited' = {}
    /\ UNCHANGED <<page, popup, ei, ci, results, called, faulted>>
    /\ UNCHANGED dynamicVars

Next ==
    \/ CallLoopExtractor
    \/ MultiselectContainer
    \/ DropdownContainer
    \/ CallPlainExtractor
    \/ MergeResults
    \/ CallDynamic
    \/ Header
    \/ ClickAdd
    \/ WaitForFields
    \/ SectionFields
    \/ ReturnDynamic

Spec == Init /\ [][Next]_vars

----------------------------------------------------------------------------
(* extract_application_steps and extract_all_steps_sequentially            *)

\* The most items a progress bar shows.
MaxSteps == 3

\* inner_text() of the second label of a progress item.
StepNames == { <<"A">>, <<"B", " ">> }

\* A progress item: its name, and whether its data-automation-id is
\* "progressBarActiveStep".
ProgressItems == [name : StepNames, current : BOOLEAN]

\* The pages the walker is run on.
WalkerPages ==
    { [top  |-> <<MultiSelectShape>>,
       secs |-> [s \in Sections |-> [group |-> FALSE, add |-> FALSE, inst |-> 0]]],
      [top  |-> <<>>,
       secs |-> [s \in Sections |->
                   IF s = 1 THEN [group |-> TRUE, add |-> TRUE, inst |-> 0]
                   ELSE [group |-> FALSE, add |-> FALSE, inst |-> 0]]] }

\* The dictionary appended to steps_data for a progress item.
StepOf(item) ==
    [step_name |-> RStrip(LStrip(item.name)), is_current_step |-> item.current]

\* d[k] = v on a dictionary kept as the sequence of its items in insertion
\* order, with a new item added at the end whatever the keys present.
DictAppend(d, k, v) == Append(d, [key |-> k, value |-> v])

\* d[k] = v on a dictionary kept as the sequence of its items in insertion
\* order: the value of a key that is present is replaced in place.
DictSet(d, k, v) ==
    IF \E i \in 1..Len(d) : d[i].key = k
    THEN [i \in 1..Len(d) |-> IF d[i].key = k THEN [key |-> k, value |-> v]
                             ELSE d[i]]
    ELSE Append(d, [key |-> k, value |-> v])

\* The state a call of extract_all_form_fields starts in.
EnterPass ==
    /\ pc' = "agg"
    /\ ei' = 1
    /\ ci' = 0
    /\ results' = <<>>
    /\ all_results' = <<>>
    /\ seen_labels' = {}
    /\ hi' = 0
    /\ section_title' = Unbound
    /\ sectioned_results' = <<>>
    /\ produced' = <<>>
    /\ called' = {}
    /\ unvisited' = {}
    /\ handled' = {}
    /\ clicks' = [s \in Sections |-> 0]
    /\ fresh' = [s \in Sections |-> 0]
    /\ waited' = {}
    /\ raisedIn' = {}

passVars ==
    << pc, ei, ci, results, all_results, seen_labels, hi, section_title,
       sectioned_results, produced, called, unvisited, handled, clicks,
       fresh, waited, raisedIn >>

WalkerInit ==
    /\ page \in WalkerPages
    /\ progress \in SeqsUpTo(ProgressItems, MaxSteps)
    /\ wpc = "settle"
    /\ steps_data = <<>>
    /\ si = 0
    /\ all_step_data = <<>>
    /\ invoked = <<>>
    /\ stepsFailed = FALSE
    /\ pass = 1
    /\ first = <<>>
    /\ NoCall
    /\ popup = Closed
    /\ pc = "idle"
    /\ ei = 1
    /\ ci = 0
    /\ results = <<>>
    /\ all_results = <<>>
    /\ seen_labels = {}
    /\ hi = 0
    /\ section_title = Unbound
    /\ sectioned_results = <<>>
    /\ produced = <<>>
    /\ called = {}
    /\ unvisited = {}
    /\ handled = {}
    /\ clicks = [s \in Sections |-> 0]
    /\ fresh = [s \in Sections |-> 0]
    /\ waited = {}
    /\ raisedIn = {}
    /\ faulted = FALSE

\* page.wait_for_timeout(3000), before the try statement: an exception of
\* this call leaves extract_all_steps_sequentially.
SettleWait ==
    /\ wpc = "settle"
    /\ \/ wpc' = "steps" /\ UNCHANGED faulted
       \/ wpc' = "raised" /\ faulted' = TRUE
    /\ UNCHANGED <<page, popup, passVars, twiceVars, callVars>>
    /\ UNCHANGED <<progress, steps_data, si, all_step_data, invoked,
                   stepsFailed>>

\* The first n elements of a sequence of progress items, as steps.
StepsRead(items, n) == [i \in 1..n |-> StepOf(items[i])]

\* A whole call of extract_application_steps: the items are read in order
\* until a call raises; the except clause logs, and steps_data is returned
\* as it stands.
ApplicationSteps ==
    /\ wpc = "steps"
    /\ \/ \* listing the items raises
          /\ steps_data' = <<>>
          /\ stepsFailed' = TRUE
          /\ faulted' = TRUE
       \/ \* reading item n + 1 raises
          \E n \in 0..(Len(progress) - 1) :
             /\ steps_data' = StepsRead(progress, n)
             /\ stepsFailed' = TRUE
             /\ faulted' = TRUE
       \/ \* no call raises
          /\ steps_data' = StepsRead(progress, Len(progress))
          /\ UNCHANGED <<stepsFailed, faulted>>
    /\ wpc' = "walk"
    /\ si' = 1
    /\ UNCHANGED <<page, popup, passVars, twiceVars, callVars>>
    /\ UNCHANGED <<progress, all_step_data, invoked>>

\* One iteration of the loop over steps, up to the call of the aggregator.
WalkStep ==
    /\ wpc = "walk"
    /\ si <= Len(steps_data)
    /\ IF steps_data[si].is_current_step
       THEN /\ EnterPass
            /\ wpc' = "form"
            /\ UNCHANGED <<si, all_step_data>>
       ELSE /\ all_step_data' =
                  DictSet(all_step_data, steps_data[si].step_name, <<>>)
            /\ si' = si + 1
            /\ UNCHANGED <<wpc, passVars>>
    /\ UNCHANGED <<page, popup, faulted, twiceVars, callVars>>
    /\ UNCHANGED <<progress, steps_data, invoked, stepsFailed>>

\* extract_all_form_fields has ended: its list is stored under the step's
\* name; an exception it raised lands in the except clause of the walker,
\* which returns an empty dictionary.
FormFieldsEnd ==
    /\ wpc = "form"
    /\ pc \in {"done", "raised"}
    /\ IF pc = "done"
       THEN /\ all_step_data' =
                  DictSet(all_step_data, steps_data[si].step_name, all_results)
            /\ invoked' = Append(invoked, [step |-> si, fields |-> all_results])
            /\ si' = si + 1
            /\ wpc' = "walk"
       ELSE /\ all_step_data' = <<>>
            /\ wpc' = "returned"
            /\ UNCHANGED <<si, invoked>>
    /\ pc' = "idle"
    /\ UNCHANGED <<page, popup, faulted, twiceVars, callVars>>
    /\ UNCHANGED <<ei, ci, results, all_results, seen_labels, hi,
                   section_title, sectioned_results, produced, called,
                   unvisited, handled, clicks, fresh, waited, raisedIn>>
    /\ UNCHANGED <<progress, steps_data, stepsFailed>>

\* return all_step_data
WalkerReturn ==
    /\ wpc = "walk"
    /\ si > Len(steps_data)
    /\ wpc' = "returned"
    /\ UNCHANGED <<page, popup, faulted, passVars, twiceVars, callVars>>
    /\ UNCHANGED <<progress, steps_data, si, all_step_data, invoked,
                   stepsFailed>>

WalkerNext ==
    \/ SettleWait
    \/ ApplicationSteps
    \/ WalkStep
    \/ FormFieldsEnd
    \/ WalkerReturn
    \/ Next

WalkerSpec == WalkerInit /\ [][WalkerNext]_vars

----------------------------------------------------------------------------
(* Properties                                                              *)

Returned == pc = "done"

Locs == Range(FormFieldContainers(page))

Produced == Range(produced)

\* The containers that hold both a dropdown trigger and radio inputs.
TriggerAndRadios ==
    {l \in Locs : ContainerAt(page, l).trig > 0 /\ ContainerAt(page, l).radios > 0}

\* C1: in a pass in which no call on the page raises, every container that
\* holds both a dropdown trigger and radio inputs yields a descriptor of kind
\* dropdown-button and no descriptor of kind radio.
C1_DropdownNeverRadio ==
    (Returned /\ ~faulted) =>
        \A l \in TriggerAndRadios :
            /\ \E f \in Produced :
                  f.src = l /\ f.type_of_input = "dropdown-button"
            /\ \A f \in Produced :
                  f.src = l => f.type_of_input # "radio"

\* C2: in a pass in which no call on the page raises, no container yields
\* descriptors of two different kinds.
C2_OneKindPerContainer ==
    (Returned /\ ~faulted) =>
        \A f, g \in Produced :
            f.src = g.src => f.type_of_input = g.type_of_input

\* The key the claim names: label + "_" + input_id.
KeyOf(f) == f.label \o <<"_">> \o PyStr(f.id)

\* The indices of `q` that carry the first occurrence of their key.
FirstIndices(q) ==
    {i \in 1..Len(q) : \A j \in 1..(i - 1) : KeyOf(q[j]) # KeyOf(q[i])}

\* C3: all_results never holds two descriptors with the same key, and it is
\* the sequence of the first occurrences of each key among the fields the
\* extractors returned, in the order they were returned.
C3_FirstOccurrenceWins ==
    /\ \A i, j \in 1..Len(all_results) :
          i # j => KeyOf(all_results[i]) # KeyOf(all_results[j])
    /\ Len(all_results) = Cardinality(FirstIndices(produced))
    /\ \A i \in 1..Len(all_results) :
          \E k \in FirstIndices(produced) :
              /\ all_results[i] = produced[k]
              /\ Cardinality({m \in FirstIndices(produced) : m < k}) = i - 1

\* C3's case: the pass has returned, and a later field was dropped for a key
\* that an earlier field carried.
C3_Witness ==
    /\ Returned
    /\ \E i, j \in 1..Len(produced) :
          /\ i < j
          /\ KeyOf(produced[i]) = KeyOf(produced[j])
          /\ produced[i] # produced[j]
          /\ \E k \in 1..Len(all_results) : all_results[k] = produced[i]

\* C4: whenever the pass stands between two containers, no option popup is
\* open.
C4_PopupClosedAfterRead == popup = Closed

\* C5: when an extractor has ended, the iteration of every element of its
\* batch has started.
C5_EveryContainerProcessed == unvisited = {}

AllExtractors == Range(base_extractors) \cup {"dynamic"}

C7_SectionNames ==
    (Returned /\ ~faulted) =>
        \A i \in 1..Len(all_results) :
            LET f == all_results[i]
            IN  f.section_name =
                    IF InSection(f.src) THEN Title(f.src[2]) ELSE main

\* C8: the fields extract_section_specific_fields returns after the click
\* in a section are those of the instance that click materialized.
C8_OnlyTheNewInstance ==
    \A i \in 1..Len(sectioned_results) :
        LET f == sectioned_results[i]
        IN  /\ InSection(f.src)
            /\ f.src[3] = fresh[f.src[2]]

\* C9: when the loop over the section headers has started and
\* extract_dynamic_section_fields has returned, the iteration of every
\* section header has started.
C9_EveryHeaderProcessed ==
    (Returned /\ hi # 0) => handled = Sections

HasAdd(s) == page.secs[s].group /\ page.secs[s].add

FieldsOf(s) ==
    {i \in 1..Len(sectioned_results) :
        sectioned_results[i].section_name = Title(s)}

\* C10: in a pass in which no call on the page raises, the add control of
\* every section that exposes one has been clicked exactly once when the pass
\* returns, and a section contributes descriptors only after its click, after
\* the wait for a field container has ended, and when the click made a field
\* container appear.
C10_ClickWaitThenExtract ==
    ~faulted =>
        \A s \in Sections :
            /\ (Returned /\ HasAdd(s)) => clicks[s] = 1
            /\ FieldsOf(s) # {} =>
                  (clicks[s] = 1 /\ s \in waited /\ fresh[s] # 0)

----------------------------------------------------------------------------
(* Properties of the walk over the steps                                   *)

WalkerReturned == wpc = "returned"

\* The list the aggregator returned when it was invoked for step i, <<>>
\* when it was not invoked for it.
FieldsFor(i) ==
    IF \E j \in 1..Len(invoked) : invoked[j].step = i
    THEN invoked[CHOOSE j \in 1..Len(invoked) : invoked[j].step = i].fields
    ELSE <<>>

InvokedFor == {invoked[j].step : j \in 1..Len(invoked)}

\* C11, as claimed: when no call on the page raises, the mapping returned
\* for a progress indicator of N steps has exactly N keys, one per step in
\* progress order; a step not marked current maps to the empty list, a step
\* marked current to the list the aggregator returned for it, and the
\* aggregator is invoked for the steps marked current only.
C11_OneKeyPerStep ==
    (WalkerReturned /\ ~faulted) =>
        /\ Len(all_step_data) = Len(progress)
        /\ \A i \in 1..Len(progress) :
              /\ all_step_data[i].key = StepOf(progress[i]).step_name
              /\ all_step_data[i].value =
                    IF progress[i].current THEN FieldsFor(i) ELSE <<>>
        /\ InvokedFor = {i \in 1..Len(progress) : progress[i].current}

\* The indices of steps_data that carry the first occurrence of their name.
FirstNamed ==
    {i \in 1..Len(steps_data) :
        \A j \in 1..(i - 1) : steps_data[j].step_name # steps_data[i].step_name}

\* The last step of steps_data that carries the name k.
LastNamed(k) ==
    CHOOSE i \in 1..Len(steps_data) :
        /\ steps_data[i].step_name = k
        /\ \A j \in (i + 1)..Len(steps_data) : steps_data[j].step_name # k

\* C11, amended: the mapping returned has one key per distinct name among
\* the steps extract_application_steps returned, in the order of the first
\* occurrences, hence exactly one key per step, in progress order, when
\* every item was read and the names are pairwise distinct; a name maps to the
\* empty list when the last step that carries it is not marked current and
\* else to the list the aggregator returned for that step; the aggregator is
\* invoked once for each step marked current and for no other step.
C11_OneKeyPerName ==
    WalkerReturned =>
        /\ Len(all_step_data) = Cardinality(FirstNamed)
        /\ \A i \in 1..Len(all_step_data) :
              LET k    == all_step_data[i].key
                  last == LastNamed(k)
              IN  /\ \E f \in FirstNamed :
                        /\ steps_data[f].step_name = k
                        /\ Cardinality({g \in FirstNamed : g < f}) = i - 1
                  /\ all_step_data[i].value =
                        IF steps_data[last].is_current_step
                        THEN FieldsFor(last) ELSE <<>>
        /\ InvokedFor =
              {i \in 1..Len(steps_data) : steps_data[i].is_current_step}
        /\ Len(invoked) = Cardinality(InvokedFor)
        /\ (Len(steps_data) = Len(progress)
              /\ Cardinality(FirstNamed) = Len(progress))
              => \A i \in 1..Len(progress) :
                    all_step_data[i].key = StepOf(progress[i]).step_name

\* C11's case: the walk over a progress bar of several steps with distinct
\* names has returned one key per step, and the aggregator returned a
\* field for the step marked current.
C11_Witness ==
    /\ WalkerReturned
    /\ Len(progress) >= 2
    /\ Len(all_step_data) = Len(progress)
    /\ \E i \in 1..Len(all_step_data) : all_step_data[i].value # <<>>
    /\ \E i \in 1..Len(progress) : ~progress[i].current

\* C12: no exception leaves extract_all_steps_sequentially, and when a call
\* has raised during it the mapping it returns is empty.
C12_NeverRaisesEmptyOnFailure ==
    /\ wpc # "raised"
    /\ (WalkerReturned /\ faulted) => all_step_data = <<>>

\* C13: when reading the progress items has raised, extract_application_steps
\* returns the empty sequence.
C13_EmptyOnFailure == stepsFailed => steps_data = <<>>

----------------------------------------------------------------------------
(* The descriptors of single controls                                      *)

\* The texts a control's label or legend shows, None when it has none.
LabelTexts == { None, <<"a">>, <<"a", "*">> }

\* A text input: with or without id, its label pointing at the id it has.
TextControls ==
    { [Blank EXCEPT !.label = l, !.labelFor = <<"t">>, !.text = 1,
                    !.textId = id, !.ariaReq = r,
                    !.value = IF r THEN <<>> ELSE <<"v">>] :
        l \in LabelTexts, id \in {None, <<"t">>}, r \in BOOLEAN }

TextareaControls ==
    { [Blank EXCEPT !.label = l, !.labelFor = <<"y">>, !.ta = 1,
                    !.taId = <<"y">>, !.ariaReq = r,
                    !.value = IF r THEN <<"v">> ELSE <<>>] :
        l \in LabelTexts, r \in BOOLEAN }

CheckboxControls ==
    { [Blank EXCEPT !.label = l, !.labelFor = <<"k">>, !.cb = 1,
                    !.cbId = <<"k">>, !.ariaReq = r, !.checked = ch] :
        l \in LabelTexts, r \in BOOLEAN, ch \in BOOLEAN }

\* A date picker: a fieldset with spinbutton inputs, with or without the
\* dateInputWrapper, its Month and Year inputs filled or not.
DateControls ==
    { [Blank EXCEPT !.fs = TRUE, !.legend = l, !.spin = 2, !.dateWrap = w,
                    !.dateId = IF w THEN <<"w">> ELSE None,
                    !.month = m, !.year = y, !.ariaReq = (m = <<>> /\ y = <<>>)] :
        l \in LabelTexts, w \in BOOLEAN,
        m \in {<<>>, <<"5">>}, y \in {<<>>, <<"9">>} }

\* A button dropdown drawn as a fieldset, its trigger with or without id.
DropdownControls ==
    { [Blank EXCEPT !.fs = TRUE, !.legend = l, !.trig = 1, !.trigId = id,
                    !.trigInFs = TRUE, !.ariaReq = (a = "required"),
                    !.ariaLbl = (a = "label"), !.trigText = <<"o">>,
                    !.opts = << <<"o">>, <<"p">> >>] :
        l \in LabelTexts, id \in {None, <<"b">>},
        a \in {"none", "required", "label"} }

RadioControls ==
    { [Blank EXCEPT !.fs = TRUE, !.legend = l, !.radios = 2,
                    !.radioDiv = TRUE, !.radioId = id, !.ariaReq = r,
                    !.opts = << <<"o">>, <<"p">> >>] :
        l \in LabelTexts, id \in {None, <<"r">>}, r \in BOOLEAN }

MultiSelectControls ==
    { [Blank EXCEPT !.label = l, !.ms = TRUE, !.msId = <<"m">>,
                    !.msBtn = TRUE, !.ariaReq = r,
                    !.opts = << <<"o">>, <<"p">> >>] :
        l \in LabelTexts, r \in BOOLEAN }

\* A file upload: without input, with an input without id, with an input
\* with id, and with an input that takes several files.
FileControls ==
    { [Blank EXCEPT !.label = l, !.file = TRUE, !.fileIn = (i # "none"),
                    !.fileId = IF i \in {"id", "multiple"} THEN <<"f">>
                               ELSE None,
                    !.fileMul = (i = "multiple"),
                    !.ariaReq = (i = "none")] :
        l \in LabelTexts, i \in {"none", "noid", "id", "multiple"} }

ControlKinds ==
    { TextControls, TextareaControls, CheckboxControls, DateControls,
      DropdownControls, RadioControls, MultiSelectControls, FileControls }

Controls == UNION ControlKinds

\* A page that shows one control, or two controls of one kind, and no
\* section.
ControlPages ==
    { [top  |-> q,
       secs |-> [s \in Sections |-> [group |-> FALSE, add |-> FALSE, inst |-> 0]]] :
        q \in {<<c>> : c \in Controls}
              \cup UNION {{<<c, d>> : c \in K, d \in K} : K \in ControlKinds} }

ControlsInit ==
    /\ page \in ControlPages
    /\ NoDriver
    /\ popup = Closed
    /\ pc = "agg"
    /\ ei = 1
    /\ ci = 0
    /\ results = <<>>
    /\ all_results = <<>>
    /\ seen_labels = {}
    /\ hi = 0
    /\ section_title = Unbound
    /\ sectioned_results = <<>>
    /\ produced = <<>>
    /\ called = {}
    /\ unvisited = {}
    /\ handled = {}
    /\ clicks = [s \in Sections |-> 0]
    /\ fresh = [s \in Sections |-> 0]
    /\ waited = {}
    /\ raisedIn = {}
    /\ faulted = FALSE

\* extract_section_specific_fields on a group that holds the containers of
\* the page, under the title of the first section, when no call raises.
SectionSpecific ==
    /\ pc = "done"
    /\ sectioned_results = <<>>
    /\ LET locs == FormFieldContainers(page)
           run  == RunLoop("section", page, locs, {}, 1, Title(1))
       IN  /\ run.results # <<>>
           /\ sectioned_results' = run.results
    /\ UNCHANGED <<page, popup, pc, ei, ci, results, all_results,
                   seen_labels, hi, section_title, produced, called,
                   unvisited, handled, clicks, fresh, waited, raisedIn,
                   faulted, driverVars>>

\* One call of extract_all_form_fields during which no call on the page
\* raises, then extract_section_specific_fields on the same containers.
ControlsNext ==
    \/ SectionSpecific
    \/ Next /\ ~faulted'

ControlsSpec == ControlsInit /\ [][ControlsNext]_vars

----------------------------------------------------------------------------
(* Two calls of extract_all_form_fields in a row                           *)

\* The second call of extract_all_form_fields, on the page as the first
\* call left it.
SecondPass ==
    /\ pc = "done"
    /\ pass = 1
    /\ pass' = 2
    /\ first' = all_results
    /\ EnterPass
    /\ UNCHANGED <<page, popup, faulted, walkerVars, callVars>>

\* Two calls in a row during which no call on the page raises.
TwiceNext ==
    \/ SecondPass
    \/ Next /\ ~faulted'

TwiceSpec == Init /\ [][TwiceNext]_vars

\* The (label, input_id) pairs of a list of descriptors.
Pairs(fields) == {<<fields[i].label, fields[i].id>> : i \in 1..Len(fields)}

\* C14: when no call on the page raises, the second of two calls in a row
\* returns a list of the length of the first one's, with the same
\* (label, input_id) pairs.
C14_SameListTwice ==
    (pass = 2 /\ Returned) =>
        /\ Len(all_results) = Len(first)
        /\ Pairs(all_results) = Pairs(first)

----------------------------------------------------------------------------
(* Properties of the descriptors                                           *)

\* Every descriptor the base extractors and extract_section_specific_fields
\* returned.
Emitted == Produced \cup Range(sectioned_results)

ControlOf(f) == ContainerAt(page, f.src)

\* The text of the label or legend the page shows for the control of
\* descriptor f, None when the page shows none for it.
LabelShown(f) ==
    LET c == ControlOf(f)
    IN  CASE f.type_of_input \in {"date", "radio"} -> c.legend
          [] f.type_of_input = "dropdown-button" ->
                IF c.fs THEN c.legend
                ELSE IF c.labelFor = c.trigId THEN c.label ELSE None
          [] f.type_of_input = "text" ->
                IF c.textId # None /\ c.labelFor = c.textId THEN c.label
                ELSE None
          [] f.type_of_input = "checkbox" ->
                IF c.cbId # None /\ c.labelFor = c.cbId THEN c.label ELSE None
          [] f.type_of_input = "textarea" ->
                IF c.taId # None /\ c.labelFor = c.taId THEN c.label ELSE None
          [] OTHER -> c.label

\* The id attribute the page gives for the control of descriptor f, None
\* when it gives none.
IdShown(f) ==
    LET c == ControlOf(f)
    IN  CASE f.type_of_input = "date"  -> IF c.dateWrap THEN c.dateId ELSE None
          [] f.type_of_input = "radio" -> IF c.radioDiv THEN c.radioId ELSE None
          [] f.type_of_input = "dropdown-button" -> c.trigId
          [] f.type_of_input = "text" -> c.textId
          [] f.type_of_input = "checkbox" -> c.cbId
          [] f.type_of_input = "textarea" -> c.taId
          [] f.type_of_input = "multi-select" -> c.msId
          [] OTHER -> IF c.fileIn THEN c.fileId ELSE None

\* A control for which the page shows neither label nor legend.
Unlabelled(c) == IF c.fs THEN c.legend = None ELSE c.label = None

\* C15: every descriptor a base extractor read from a control without id is
\* in the list extract_all_form_fields returns: the de-duplication drops none
\* of them.
C15_NoIdNeverCollapsed ==
    Returned =>
        \A f \in Produced :
            Falsy(IdShown(f)) => \E i \in 1..Len(all_results) : all_results[i] = f

\* C16: every control without label or legend is emitted, and every
\* descriptor whose label could not be resolved carries the label "Unknown".
C16_UnknownLabel ==
    Returned =>
        /\ \A l \in Locs :
              Unlabelled(ContainerAt(page, l)) => \E f \in Emitted : f.src = l
        /\ \A f \in Emitted : LabelShown(f) = None => f.label = Unknown

\* C17: every descriptor of kind text, textarea, date, single-file or
\* multiple-file has no options.
C17_NoOptions ==
    \A f \in Emitted :
        f.type_of_input \in
            {"text", "textarea", "date", "single-file", "multiple-file"}
        => f.options = <<>>

\* C18: every descriptor of kind checkbox has the options "Yes", "No", and
\* the one current value "Yes" when the input is checked, "No" when not.
C18_CheckboxYesNo ==
    \A f \in Emitted :
        f.type_of_input = "checkbox" =>
            /\ f.options = <<Yes, No>>
            /\ f.user_data_select_values =
                  IF ControlOf(f).checked THEN <<Yes>> ELSE <<No>>

\* C18's case: a checked and an unchecked checkbox have been emitted.
C18_Witness ==
    /\ Returned
    /\ \E f, g \in Emitted :
          /\ f.type_of_input = "checkbox" /\ ControlOf(f).checked
          /\ f.user_data_select_values = <<Yes>>
          /\ g.type_of_input = "checkbox" /\ ~ControlOf(g).checked
          /\ g.user_data_select_values = <<No>>

\* C19: every descriptor of kind date has the one current value
\* "<month>/<year>" when the Month and the Year input both hold a value, and
\* no current value when one of them is empty or missing.
C19_MonthSlashYear ==
    \A f \in Emitted :
        f.type_of_input = "date" =>
            LET c == ControlOf(f)
            IN  f.user_data_select_values =
                    IF c.month # <<>> /\ c.year # <<>>
                    THEN << c.month \o <<"/">> \o c.year >> ELSE <<>>

\* C19's case: a date with both parts and a date with the month only have
\* been emitted.
C19_Witness ==
    /\ Returned
    /\ \E f, g \in Emitted :
          /\ f.type_of_input = "date"
          /\ f.user_data_select_values = << <<"5", "/", "9">> >>
          /\ g.type_of_input = "date"
          /\ ControlOf(g).month # <<>> /\ ControlOf(g).year = <<>>
          /\ g.user_data_select_values = <<>>

\* C20: the required flag of every descriptor is true exactly when the label
\* text shown for its control holds the marker "*", or the control carries
\* aria-required="true", or its aria-label holds "Required".
C20_RequiredResolution ==
    \A f \in Emitted :
        LET c == ControlOf(f)
        IN  f.required =
                \/ (LabelShown(f) # None /\ HasStar(LabelShown(f)))
                \/ c.ariaReq
                \/ c.ariaLbl

----------------------------------------------------------------------------
(* The step fillers of src/workday_automation/steps                        *)

\* What a Python call hands back: the three values a filler can return, and
\* an exception that leaves the call.
PyTrue == "True"

PyFalse == "False"

PyNone == "None"

Raised == "raised"

\* `if x` on what a call returned.
Truthy(x) == x = PyTrue

\* One thing done to the browser: the operation, the step of the wizard it
\* belongs to (0 outside the steps), and what it yielded.
Ev(op, step, note) == [op |-> op, step |-> step, note |-> note]

\* The call of a filler that raises first: none, a call before the button
\* is looked for, the click on the button, or the wait after the click.
FaultSites == {"none", "body", "click", "after"}

\* What the page shows in its footer: the button under
\* data-automation-id="pageFooterNextButton", a button only the other
\* selectors of steps 3 and 4 match, or no button.
Buttons == {"footer", "other", "none"}

\* step6.submit of the configuration.
SubmitSettings == {"true", "false", "absent"}

\* What a filler meets: the step, the call that raises, the footer of the
\* page, whether the step has what it needs (step 3: questions on the page;
\* steps 4 and 5: their entries of the configuration) and step6.submit.
FillerEnvs ==
    [fault : FaultSites, button : Buttons, ready : BOOLEAN,
     submit : SubmitSettings]

\* What a filler did and returned.
Outcome(r, did) == [ret |-> r, did |-> did]

\* page.click('button[data-automation-id="pageFooterNextButton"]') fails
\* when the call raises or no such button shows up.
FooterClickFails(e) == e.fault = "click" \/ e.button # "footer"

\* fill_my_information: every failure before the click ends in the outer
\* except clause, a failing click in the inner one.
fill_my_information(e) ==
    IF e.fault = "body" THEN Outcome(PyFalse, <<"screenshot">>)
    ELSE IF FooterClickFails(e) THEN Outcome(PyFalse, <<>>)
    ELSE Outcome(PyTrue, <<"next">>)

\* fill_my_experience: the try block ends after the click without a return
\* statement, so the call yields None.
fill_my_experience(e) ==
    IF e.fault = "body" \/ FooterClickFails(e)
    THEN Outcome(PyFalse, <<"screenshot">>)
    ELSE Outcome(PyNone, <<"next">>)

\* The loop of steps 3 and 4 over their button selectors clicks the first
\* selector that matches and whose click does not raise.
FirstClicked(e) ==
    IF e.button = "none" \/ e.fault = "click" THEN <<>> ELSE <<e.button>>

\* fill_application_questions.
fill_application_questions(e) ==
    IF e.fault = "body" THEN Outcome(PyFalse, <<"screenshot">>)
    ELSE IF ~e.ready THEN Outcome(PyTrue, <<>>)
    ELSE IF FirstClicked(e) = <<>> THEN Outcome(PyFalse, <<>>)
    ELSE IF e.fault = "after" THEN Outcome(PyFalse, FirstClicked(e))
    ELSE Outcome(PyTrue, FirstClicked(e))

\* fill_voluntary_disclosures.
fill_voluntary_disclosures(e) ==
    IF ~e.ready
    THEN IF e.fault = "body" \/ FooterClickFails(e)
         THEN Outcome(PyFalse, <<"screenshot">>)
         ELSE Outcome(PyTrue, <<"next">>)
    ELSE IF e.fault = "body" THEN Outcome(PyFalse, <<"screenshot">>)
    ELSE IF FirstClicked(e) = <<>> THEN Outcome(PyTrue, <<"keys">>)
    ELSE Outcome(PyTrue, FirstClicked(e))

\* fill_self_identify.
fill_self_identify(e) ==
    IF ~e.ready \/ e.fault = "body" \/ FooterClickFails(e)
    THEN Outcome(PyFalse, <<"screenshot">>)
    ELSE IF e.fault = "after" THEN Outcome(PyFalse, <<"next", "screenshot">>)
    ELSE Outcome(PyTrue, <<"next">>)

\* A submit_review that never reads step6.submit.
submission_always(e) == TRUE

\* config.get("step6", {}).get("submit", True)
submission_enabled(e) == e.submit # "false"

\* submit_review: the submit button is the footer button of the last step.
submit_review(e) ==
    IF ~submission_enabled(e)
    THEN IF e.fault = "body" THEN Outcome(PyFalse, <<"screenshot">>)
         ELSE Outcome(PyTrue, <<>>)
    ELSE IF e.fault = "body" \/ FooterClickFails(e)
         THEN Outcome(PyFalse, <<"screenshot">>)
    ELSE IF e.fault = "after" THEN Outcome(PyFalse, <<"next", "screenshot">>)
    ELSE Outcome(PyTrue, <<"next">>)

\* The list `steps` of main: the filler of step k.
StepCount == 6

Filler(k, e) ==
    CASE k = 1 -> fill_my_information(e)
      [] k = 2 -> fill_my_experience(e)
      [] k = 3 -> fill_application_questions(e)
      [] k = 4 -> fill_voluntary_disclosures(e)
      [] k = 5 -> fill_self_identify(e)
      [] k = 6 -> submit_review(e)

\* What a list of operations puts on the trace.
Events(did, k) == [i \in 1..Len(did) |-> Ev(did[i], k, "")]

\* The extractor at rest: the calls below are studied on their own.
ExtractorIdle ==
    /\ page = [top |-> <<>>,
               secs |-> [s \in Sections |-> [group |-> FALSE, add |-> FALSE, inst |-> 0]]]
    /\ popup = Closed
    /\ pc = "idle"
    /\ ei = 1
    /\ ci = 0
    /\ results = <<>>
    /\ all_results = <<>>
    /\ seen_labels = {}
    /\ hi = 0
    /\ section_title = Unbound
    /\ sectioned_results = <<>>
    /\ produced = <<>>
    /\ called = {}
    /\ unvisited = {}
    /\ handled = {}
    /\ clicks = [s \in Sections |-> 0]
    /\ fresh = [s \in Sections |-> 0]
    /\ waited = {}
    /\ raisedIn = {}
    /\ faulted = FALSE
    /\ wpc = "off"
    /\ progress = <<>>
    /\ steps_data = <<>>
    /\ si = 0
    /\ all_step_data = <<>>
    /\ invoked = <<>>
    /\ stepsFailed = FALSE
    /\ pass = 1
    /\ first = <<>>

\* One filler called on the page of its step.
FillersInit ==
    /\ ExtractorIdle
    /\ mpc = "call"
    /\ args \in FillerEnvs
    /\ trace = <<>>
    /\ ret = Pending
    /\ stepNo \in 1..StepCount

extractorVars ==
    << page, popup, pc, ei, ci, results, all_results, seen_labels, hi,
       section_title, sectioned_results, produced, called, unvisited,
       handled, clicks, fresh, waited, raisedIn, faulted, walkerVars,
       twiceVars >>

CallFiller ==
    /\ mpc = "call"
    /\ LET out == Filler(stepNo, args)
       IN  /\ trace' = Events(out.did, stepNo)
           /\ ret' = out.ret
    /\ mpc' = "returned"
    /\ UNCHANGED <<args, stepNo, extractorVars>>

FillersSpec == FillersInit /\ [][CallFiller]_vars

----------------------------------------------------------------------------
(* The orchestration of src/main.py                                        *)

\* run_step as defined at line 36: an exception of the step function is
\* answered by a screenshot.  The definition at line 122 rebinds the name
\* before main runs.
run_step_36(out, k) ==
    IF out.ret = Raised
    THEN Outcome(PyFalse, Events(out.did, k) \o <<Ev("run_step screenshot", k, "")>>)
    ELSE Outcome(IF Truthy(out.ret) THEN PyTrue ELSE PyFalse, Events(out.did, k))

\* run_step as defined at line 122, given whether its wait for the network
\* to be idle succeeds and what the step function does when called.
run_step_122(idle, out, k) ==
    IF ~idle THEN Outcome(PyFalse, <<>>)
    ELSE LET called_fn == <<Ev("filler", k, out.ret)>> \o Events(out.did, k)
         IN  IF out.ret = Raised THEN Outcome(PyFalse, called_fn)
             ELSE Outcome(IF Truthy(out.ret) THEN PyTrue ELSE PyFalse, called_fn)

\* The run_step that main calls: the later definition of the module.
run_step(idle, out, k) == run_step_122(idle, out, k)

\* A main that goes on whatever run_step returned.
proceeds_always(result) == TRUE

\* main, line 101: the loop goes on when run_step returned a true value.
proceeds(result) == Truthy(result)

\* CONFIG.get('headless', True)
HeadlessSettings == {"true", "false", "absent"}

MainInit ==
    /\ ExtractorIdle
    /\ mpc = "launch"
    /\ args \in [headless : HeadlessSettings, submit : SubmitSettings]
    /\ trace = <<>>
    /\ ret = Pending
    /\ stepNo = 0

\* An exception leaves main.
MainRaises ==
    /\ mpc' = "exited"
    /\ ret' = Raised
    /\ UNCHANGED <<trace, stepNo>>

\* Inside the try statement of main: the except clause logs, then the
\* finally clause runs; a return statement also goes through it.
ToFinally ==
    /\ mpc' = "finally"
    /\ UNCHANGED <<trace, stepNo, ret>>

\* p.chromium.launch, line 65, before the try statement.
MainLaunch ==
    /\ mpc = "launch"
    /\ \/ /\ trace' = Append(trace, Ev("launch", 0, args.headless))
          /\ mpc' = "context"
          /\ UNCHANGED <<ret, stepNo>>
       \/ MainRaises
    /\ UNCHANGED <<args, extractorVars>>

\* browser.new_context and context.new_page, lines 66 and 67, before the
\* try statement.
MainNewPage ==
    /\ mpc = "context"
    /\ \/ /\ trace' = Append(trace, Ev("new_page", 0, ""))
          /\ mpc' = "login"
          /\ UNCHANGED <<ret, stepNo>>
       \/ MainRaises
    /\ UNCHANGED <<args, extractorVars>>

\* login_to_workday, lines 70 to 72.
MainLogin ==
    /\ mpc = "login"
    /\ \/ \E r \in {PyTrue, PyFalse} :
            /\ trace' = Append(trace, Ev("login", 0, r))
            /\ mpc' = IF Truthy(r) THEN "settle" ELSE "finally"
            /\ UNCHANGED <<ret, stepNo>>
       \/ ToFinally
    /\ UNCHANGED <<args, extractorVars>>

\* The two waits, lines 74 and 75.
MainSettle ==
    /\ mpc = "settle"
    /\ \/ /\ mpc' = "extract"
          /\ UNCHANGED <<trace, ret, stepNo>>
       \/ ToFinally
    /\ UNCHANGED <<args, extractorVars>>

\* extract_all_steps_sequentially and the dump of its result, lines 79 to
\* 85.
MainExtract ==
    /\ mpc = "extract"
    /\ \/ /\ trace' = Append(trace, Ev("extract", 0, ""))
          /\ mpc' = "loop"
          /\ stepNo' = 1
          /\ UNCHANGED ret
       \/ ToFinally
    /\ UNCHANGED <<args, extractorVars>>

\* One iteration of the loop over steps up to the test of line 101.
MainRunStep ==
    /\ mpc = "loop"
    /\ stepNo <= StepCount
    /\ \E idle \in BOOLEAN, e \in FillerEnvs :
          /\ e.submit = args.submit
          /\ LET r == run_step(idle, Filler(stepNo, e), stepNo)
             IN  /\ trace' = trace \o r.did \o <<Ev("run_step", stepNo, r.ret)>>
                 /\ mpc' = IF proceeds(r.ret) THEN "delay" ELSE "finally"
    /\ UNCHANGED <<args, ret, stepNo, extractorVars>>

\* page.wait_for_timeout(1000), line 109, and the next turn of the loop.
MainDelay ==
    /\ mpc = "delay"
    /\ \/ /\ stepNo' = stepNo + 1
          /\ mpc' = IF stepNo = StepCount THEN "finally" ELSE "loop"
          /\ UNCHANGED <<trace, ret>>
       \/ ToFinally
    /\ UNCHANGED <<args, extractorVars>>

\* browser.close(), line 118, then main returns.
MainFinally ==
    /\ mpc = "finally"
    /\ trace' = Append(trace, Ev("close", 0, ""))
    /\ mpc' = "exited"
    /\ ret' = PyNone
    /\ UNCHANGED <<args, stepNo, extractorVars>>

MainNext ==
    \/ MainLaunch
    \/ MainNewPage
    \/ MainLogin
    \/ MainSettle
    \/ MainExtract
    \/ MainRunStep
    \/ MainDelay
    \/ MainFinally

MainSpec == MainInit /\ [][MainNext]_vars

\* asyncio.run(main()) runs main to its end.
MainLive == MainSpec /\ WF_vars(MainNext)

\* What a step function handed to run_step can do: click the next button or
\* not, then return a value or raise.
StepFunctionOutcomes ==
    {Outcome(r, did) : r \in {PyTrue, PyFalse, PyNone, Raised},
                       did \in {<<>>, <<"next">>}}

\* One call of run_step, on any step function.
RunStepInit ==
    /\ ExtractorIdle
    /\ mpc = "call"
    /\ args \in [idle : BOOLEAN, out : StepFunctionOutcomes]
    /\ trace = <<>>
    /\ ret = Pending
    /\ stepNo \in 1..StepCount

CallRunStep ==
    /\ mpc = "call"
    /\ LET r == run_step(args.idle, args.out, stepNo)
       IN  /\ trace' = r.did
           /\ ret' = r.ret
    /\ mpc' = "returned"
    /\ UNCHANGED <<args, stepNo, extractorVars>>

RunStepSpec == RunStepInit /\ [][CallRunStep]_vars

----------------------------------------------------------------------------
(* login_to_workday of src/workday_automation/login_handler.py             *)

\* How a call on the page ends: it succeeds, it raises Playwright's
\* TimeoutError, or it raises another Error (the page or the browser has
\* been closed, the navigation failed).
CallEnds == {"ok", "TimeoutError", "Error"}

\* Where the first exception of a stage with a form arises: nowhere, in the
\* calls before its try statement, inside its try statement, or inside the
\* try statement and again in the screenshot of the except clause.
FormFaults == {"none", "probe", "form", "handler"}

\* _navigate_and_load_page: `except Exception`.
navigate_and_load_page(e) == IF e = "ok" THEN PyTrue ELSE PyFalse

\* _click_initial_sign_in: `except TimeoutError` only.
click_initial_sign_in(e) ==
    CASE e = "ok" -> PyTrue
      [] e = "TimeoutError" -> PyFalse
      [] e = "Error" -> Raised

\* The sign-in form of _perform_existing_account_login and of
\* _handle_post_creation_signin: is_visible and the first click stand
\* before the try statement, the screenshot of the except clause outside
\* any.
sign_in_form(e) ==
    IF e.fault = "probe" THEN Raised
    ELSE IF ~e.visible THEN PyTrue
    ELSE IF e.fault = "handler" THEN Raised
    ELSE IF e.fault = "form" \/ e.invalid THEN PyFalse
    ELSE PyTrue

perform_existing_account_login(e) == sign_in_form(e)

\* _create_new_account: the whole body stands in the try statement, the
\* call of _handle_post_creation_signin included; the screenshot of the
\* except clause stands outside.
create_new_account(e) ==
    IF e.fault = "handler" THEN Raised
    ELSE IF e.fault = "form" THEN PyFalse
    ELSE IF ~e.visible THEN PyTrue
    ELSE LET post == sign_in_form([fault |-> e.post, visible |-> TRUE,
                                   invalid |-> e.invalid])
         IN  IF post = Raised THEN PyFalse ELSE post

\* _navigate_to_application_form: `except TimeoutError` only.
navigate_to_application_form(e) ==
    CASE e = "ok" -> PyTrue
      [] e = "TimeoutError" -> PyFalse
      [] e = "Error" -> Raised

\* What the job site answers to each stage.
LoginEnvs ==
    [load     : CallEnds,
     sign_in  : CallEnds,
     existing : [fault : FormFaults, visible : BOOLEAN, invalid : BOOLEAN],
     create   : [fault : {"none", "form", "handler"}, visible : BOOLEAN,
                 invalid : BOOLEAN, post : {"none", "probe", "form"}],
     apply    : CallEnds]

LoginInit ==
    /\ ExtractorIdle
    /\ mpc = "load"
    /\ args \in LoginEnvs
    /\ trace = <<>>
    /\ ret = Pending
    /\ stepNo = 0

\* `if not await stage(...): return False`, then the next stage.
StageEnds(name, outcome, next) ==
    /\ trace' = Append(trace, Ev(name, 0, outcome))
    /\ IF outcome = PyTrue
       THEN /\ mpc' = next
            /\ ret' = IF next = "returned" THEN PyTrue ELSE ret
       ELSE /\ mpc' = "returned"
            /\ ret' = outcome
    /\ UNCHANGED <<args, stepNo, extractorVars>>

LoginLoad ==
    /\ mpc = "load"
    /\ StageEnds("load", navigate_and_load_page(args.load), "sign_in")

LoginSignIn ==
    /\ mpc = "sign_in"
    /\ StageEnds("sign_in", click_initial_sign_in(args.sign_in), "existing")

LoginExisting ==
    /\ mpc = "existing"
    /\ StageEnds("existing", perform_existing_account_login(args.existing),
                 "create")

LoginCreate ==
    /\ mpc = "create"
    /\ StageEnds("create", create_new_account(args.create), "apply")

LoginApply ==
    /\ mpc = "apply"
    /\ StageEnds("apply", navigate_to_application_form(args.apply), "returned")

LoginNext ==
    \/ LoginLoad
    \/ LoginSignIn
    \/ LoginExisting
    \/ LoginCreate
    \/ LoginApply

LoginSpec == LoginInit /\ [][LoginNext]_vars

----------------------------------------------------------------------------
(* fill_input_field of src/workday_automation/steps/step2_experience.py    *)

UpperLetters ==
    <<"A", "B", "C", "D", "E", "F", "G", "H", "I", "J", "K", "L", "M",
      "N", "O", "P", "Q", "R", "S", "T", "U", "V", "W", "X", "Y", "Z">>

LowerLetters ==
    <<"a", "b", "c", "d", "e", "f", "g", "h", "i", "j", "k", "l", "m",
      "n", "o", "p", "q", "r", "s", "t", "u", "v", "w", "x", "y", "z">>

\* str.lower
Lower(s) ==
    [i \in 1..Len(s) |->
        IF \E n \in 1..Len(UpperLetters) : UpperLetters[n] = s[i]
        THEN LowerLetters[CHOOSE n \in 1..Len(UpperLetters) : UpperLetters[n] = s[i]]
        ELSE s[i]]

\* str.split(sep) for a separator of one character.
RECURSIVE Split(_, _)
Split(s, sep) ==
    IF \A i \in 1..Len(s) : s[i] # sep THEN <<s>>
    ELSE LET n == CHOOSE i \in 1..Len(s) :
                      s[i] = sep /\ \A j \in 1..(i - 1) : s[j] # sep
         IN  <<SubSeq(s, 1, n - 1)>> \o Split(SubSeq(s, n + 1, Len(s)), sep)

\* field.get("html_content", ""): the descriptors of the extractor carry no
\* such key.
html_content(field) == <<>>

\* `needle in haystack` on strings.
Contains(haystack, needle) ==
    \E i \in 0..(Len(haystack) - Len(needle)) :
        SubSeq(haystack, i + 1, i + Len(needle)) = needle

\* str(value).lower() in ["yes", "true", "1"]
MeansYes(value) ==
    Lower(value) \in {<<"y", "e", "s">>, <<"t", "r", "u", "e">>, <<"1">>}

\* The date branch: page.fill raises on a value of None, and the try
\* statement around the three fills ends the exception.
fill_date(value) ==
    LET date_parts == Split(value, "/")
        month == IF Len(date_parts) >= 2 THEN date_parts[1] ELSE None
        year  == IF Len(date_parts) >= 2 THEN date_parts[2] ELSE None
        day   == IF Len(date_parts) = 3 THEN date_parts[2] ELSE None
    IN  IF month = None THEN <<>>
        ELSE <<Ev("fill dateSectionMonth-input", 0, month),
               Ev("fill dateSectionYear-input", 0, year)>>
             \o (IF Len(date_parts) = 3
                 THEN <<Ev("fill dateSectionDay-input", 0, day)>>
                 ELSE <<>>)

\* fill_input_field when every call on the page succeeds: what it does to
\* the page.
fill_input_field(field, value) ==
    LET kind == field.type_of_input
    IN  IF kind \in {"text", "textarea"}
        THEN <<Ev("click", 0, <<>>), Ev("fill", 0, value)>>
        ELSE IF kind = "checkbox"
        THEN <<Ev(IF MeansYes(value) THEN "check" ELSE "uncheck", 0, <<>>)>>
        ELSE IF kind \in {"select", "dropdown"}
        THEN <<Ev("click", 0, <<>>), Ev("click option", 0, value)>>
        ELSE IF kind = "multi-select"
                \/ Contains(html_content(field), <<"m", "u", "l", "t", "i", "S", "e", "l", "e", "c", "t", "C", "o", "n", "t", "a", "i", "n", "e", "r">>)
        THEN <<Ev("click", 0, <<>>), Ev("fill", 0, value),
               Ev("click option", 0, value)>>
        ELSE IF kind = "date"
        THEN fill_date(value)
        ELSE IF kind = "multiple-file"
                \/ Contains(html_content(field), <<"F", "i", "l", "e", "U", "p", "l", "o", "a", "d">>)
        THEN <<Ev("set_input_files", 0, value)>>
        ELSE <<Ev("Unknown input type", 0, <<>>)>>

\* The descriptors extract_section_specific_fields emits for the controls.
SectionDescriptors ==
    UNION { Range(SectionOne(c, TopLoc(1), Title(1)).out) : c \in Controls }

\* Values of the configuration: a text, a yes, a file path, and dates of
\* one, two and three parts.
ConfigValues ==
    { <<"Y", "e", "s">>, <<"a", ".", "p", "d", "f">>, <<"2", "0", "2", "3">>,
      <<"0", "6", "/", "2", "0", "2", "3">>, <<"0", "6", "/", "1", "5", "/", "2", "0", "2", "3">> }

FillInit ==
    /\ ExtractorIdle
    /\ mpc = "call"
    /\ args \in [field : SectionDescriptors, value : ConfigValues]
    /\ trace = <<>>
    /\ ret = Pending
    /\ stepNo = 2

FillInputField ==
    /\ mpc = "call"
    /\ trace' = fill_input_field(args.field, args.value)
    /\ ret' = PyNone
    /\ mpc' = "returned"
    /\ UNCHANGED <<args, stepNo, extractorVars>>

FillSpec == FillInit /\ [][FillInputField]_vars

----------------------------------------------------------------------------
(* find_config_value_for_question of steps/step3_questions.py              *)

\* The dictionary question_patterns, in the order of its keys.
question_patterns ==
    <<
      [key |-> <<"a", "u", "t", "h", "o", "r", "i", "z", "a", "t", "i", "o", "n">>,
       patterns |-> <<
           <<"l", "e", "g", "a", "l", "l", "y", " ", "a", "u", "t", "h", "o", "r", "i", "z", "e", "d", " ", "t", "o", " ", "w", "o", "r", "k">>,
           <<"a", "u", "t", "h", "o", "r", "i", "z", "e", "d", " ", "t", "o", " ", "w", "o", "r", "k">>,
           <<"w", "o", "r", "k", " ", "a", "u", "t", "h", "o", "r", "i", "z", "a", "t", "i", "o", "n">>,
           <<"l", "e", "g", "a", "l", " ", "a", "u", "t", "h", "o", "r", "i", "z", "a", "t", "i", "o", "n">>,
           <<"w", "o", "r", "k", " ", "l", "e", "g", "a", "l", "l", "y">>,
           <<"e", "m", "p", "l", "o", "y", "m", "e", "n", "t", " ", "a", "u", "t", "h", "o", "r", "i", "z", "a", "t", "i", "o", "n">> >>],
      [key |-> <<"s", "p", "o", "n", "s", "o", "r", "s", "h", "i", "p">>,
       patterns |-> <<
           <<"s", "p", "o", "n", "s", "o", "r", "s", "h", "i", "p">>,
           <<"v", "i", "s", "a", " ", "s", "p", "o", "n", "s", "o", "r", "s", "h", "i", "p">>,
           <<"r", "e", "q", "u", "i", "r", "e", " ", "s", "p", "o", "n", "s", "o", "r", "s", "h", "i", "p">>,
           <<"n", "e", "e", "d", " ", "s", "p", "o", "n", "s", "o", "r", "s", "h", "i", "p">>,
           <<"e", "x", "t", "e", "n", "d", " ", "y", "o", "u", "r", " ", "c", "u", "r", "r", "e", "n", "t", " ", "w", "o", "r", "k", " ", "a", "u", "t", "h", "o", "r", "i", "z", "a", "t", "i", "o", "n">>,
           <<"c", "o", "n", "t", "i", "n", "u", "e", " ", "a", "n", "d", "/", "o", "r", " ", "e", "x", "t", "e", "n", "d", " ", "y", "o", "u", "r", " ", "c", "u", "r", "r", "e", "n", "t", " ", "w", "o", "r", "k", " ", "a", "u", "t", "h", "o", "r", "i", "z", "a", "t", "i", "o", "n">> >>],
      [key |-> <<"a", "g", "e">>,
       patterns |-> <<
           <<"1", "8", " ", "y", "e", "a", "r", "s", " ", "o", "f", " ", "a", "g", "e">>,
           <<"o", "v", "e", "r", " ", "1", "8">>,
           <<"a", "t", " ", "l", "e", "a", "s", "t", " ", "1", "8">>,
           <<"1", "8", " ", "o", "r", " ", "o", "l", "d", "e", "r">>,
           <<"a", "g", "e", " ", "o", "f", " ", "m", "a", "j", "o", "r", "i", "t", "y">> >>],
      [key |-> <<"b", "a", "c", "k", "g", "r", "o", "u", "n", "d", "_", "c", "h", "e", "c", "k">>,
       patterns |-> <<
           <<"b", "a", "c", "k", "g", "r", "o", "u", "n", "d", " ", "c", "h", "e", "c", "k">>,
           <<"b", "a", "c", "k", "g", "r", "o", "u", "n", "d", " ", "i", "n", "v", "e", "s", "t", "i", "g", "a", "t", "i", "o", "n">>,
           <<"c", "r", "i", "m", "i", "n", "a", "l", " ", "b", "a", "c", "k", "g", "r", "o", "u", "n", "d">>,
           <<"b", "a", "c", "k", "g", "r", "o", "u", "n", "d", " ", "s", "c", "r", "e", "e", "n", "i", "n", "g">> >>],
      [key |-> <<"d", "r", "u", "g", "_", "t", "e", "s", "t">>,
       patterns |-> <<
           <<"d", "r", "u", "g", " ", "t", "e", "s", "t">>,
           <<"d", "r", "u", "g", " ", "s", "c", "r", "e", "e", "n", "i", "n", "g">>,
           <<"s", "u", "b", "s", "t", "a", "n", "c", "e", " ", "t", "e", "s", "t">>,
           <<"p", "r", "e", "-", "e", "m", "p", "l", "o", "y", "m", "e", "n", "t", " ", "d", "r", "u", "g">> >>],
      [key |-> <<"r", "e", "l", "o", "c", "a", "t", "i", "o", "n">>,
       patterns |-> <<
           <<"r", "e", "l", "o", "c", "a", "t", "e">>,
           <<"r", "e", "l", "o", "c", "a", "t", "i", "o", "n">>,
           <<"w", "i", "l", "l", "i", "n", "g", " ", "t", "o", " ", "r", "e", "l", "o", "c", "a", "t", "e">>,
           <<"a", "b", "l", "e", " ", "t", "o", " ", "r", "e", "l", "o", "c", "a", "t", "e">> >>],
      [key |-> <<"t", "r", "a", "v", "e", "l">>,
       patterns |-> <<
           <<"t", "r", "a", "v", "e", "l">>,
           <<"w", "i", "l", "l", "i", "n", "g", " ", "t", "o", " ", "t", "r", "a", "v", "e", "l">>,
           <<"b", "u", "s", "i", "n", "e", "s", "s", " ", "t", "r", "a", "v", "e", "l">>,
           <<"t", "r", "a", "v", "e", "l", " ", "r", "e", "q", "u", "i", "r", "e", "d">> >>],
      [key |-> <<"n", "o", "t", "i", "c", "e", "_", "p", "e", "r", "i", "o", "d">>,
       patterns |-> <<
           <<"n", "o", "t", "i", "c", "e", " ", "p", "e", "r", "i", "o", "d">>,
           <<"h", "o", "w", " ", "m", "u", "c", "h", " ", "n", "o", "t", "i", "c", "e">>,
           <<"n", "o", "t", "i", "c", "e", " ", "r", "e", "q", "u", "i", "r", "e", "d">>,
           <<"s", "t", "a", "r", "t", " ", "d", "a", "t", "e">> >>],
      [key |-> <<"s", "a", "l", "a", "r", "y">>,
       patterns |-> <<
           <<"s", "a", "l", "a", "r", "y">>,
           <<"c", "o", "m", "p", "e", "n", "s", "a", "t", "i", "o", "n">>,
           <<"e", "x", "p", "e", "c", "t", "e", "d", " ", "s", "a", "l", "a", "r", "y">>,
           <<"s", "a", "l", "a", "r", "y", " ", "e", "x", "p", "e", "c", "t", "a", "t", "i", "o", "n">> >>]
    >>

\* step3_config.get(key)
Get(step3_config, key) ==
    IF key \in DOMAIN step3_config THEN step3_config[key] ELSE None

\* The first value of a list of optional values, or None.
FirstValue(values) ==
    IF \A i \in 1..Len(values) : values[i] = None THEN None
    ELSE values[CHOOSE i \in 1..Len(values) :
                    values[i] # None /\ \A j \in 1..(i - 1) : values[j] = None]

\* Lines 218 to 225: the value of the first key that has a pattern inside
\* the question and a value in the configuration.
PatternValue(question_lower, step3_config) ==
    FirstValue([g \in 1..Len(question_patterns) |->
        IF \E n \in 1..Len(question_patterns[g].patterns) :
              Contains(question_lower, question_patterns[g].patterns[n])
        THEN Get(step3_config, question_patterns[g].key)
        ELSE None])

\* Lines 227 to 234: the value of the first word of more than three
\* characters that is a key of the configuration.
WordValue(question_lower, step3_config) ==
    LET question_words == Split(question_lower, " ")
    IN  FirstValue([w \in 1..Len(question_words) |->
            IF Len(question_words[w]) > 3
            THEN Get(step3_config, question_words[w]) ELSE None])

\* any(keyword in question_lower for keyword in keywords)
AnyIn(question_lower, keywords) ==
    \E k \in keywords : Contains(question_lower, k)

\* Lines 236 to 247: the default answers, tested in this order.
DefaultAnswer(question_lower) ==
    IF AnyIn(question_lower, {<<"a", "u", "t", "h", "o", "r", "i", "z", "e", "d">>, <<"l", "e", "g", "a", "l">>, <<"w", "o", "r", "k">>})
    THEN Yes
    ELSE IF AnyIn(question_lower, {<<"s", "p", "o", "n", "s", "o", "r", "s", "h", "i", "p">>, <<"v", "i", "s", "a">>})
    THEN No
    ELSE IF AnyIn(question_lower, {<<"1", "8">>, <<"a", "g", "e">>})
    THEN Yes
    ELSE IF AnyIn(question_lower, {<<"b", "a", "c", "k", "g", "r", "o", "u", "n", "d">>, <<"d", "r", "u", "g">>, <<"t", "e", "s", "t">>})
    THEN Yes
    ELSE Yes

find_config_value_for_question(question_text, step3_config) ==
    LET question_lower == Lower(question_text)
        by_pattern == PatternValue(question_lower, step3_config)
        by_word    == WordValue(question_lower, step3_config)
    IN  IF by_pattern # None THEN by_pattern
        ELSE IF by_word # None THEN by_word
        ELSE DefaultAnswer(question_lower)

\* The words the questions are made of, and the longest question.
QuestionWords ==
    { <<"V", "i", "s", "a">>, <<"s", "p", "o", "n", "s", "o", "r", "s", "h", "i", "p">>, <<"w", "o", "r", "k">>,
      <<"d", "r", "u", "g">>, <<"r", "e", "l", "o", "c", "a", "t", "e">> }

MaxWords == 3

\* " ".join(words)
RECURSIVE Join(_)
Join(words) ==
    IF Len(words) = 1 THEN words[1]
    ELSE words[1] \o <<" ">> \o Join(Tail(words))

Questions == {Join(q) : q \in SeqsUpTo(QuestionWords, MaxWords) \ {<<>>}}

\* The step3 entry of the configuration: an answer or none for two keys.
Step3Configs ==
    [{<<"s", "p", "o", "n", "s", "o", "r", "s", "h", "i", "p">>, <<"w", "o", "r", "k">>} -> {None, Yes, No}]

QuestionInit ==
    /\ ExtractorIdle
    /\ mpc = "call"
    /\ args \in [question_text : Questions, step3 : Step3Configs]
    /\ trace = <<>>
    /\ ret = Pending
    /\ stepNo = 3

FindConfigValue ==
    /\ mpc = "call"
    /\ ret' = find_config_value_for_question(args.question_text, args.step3)
    /\ mpc' = "returned"
    /\ UNCHANGED <<args, trace, stepNo, extractorVars>>

QuestionSpec == QuestionInit /\ [][FindConfigValue]_vars


----------------------------------------------------------------------------
(* Properties of the orchestration and of the fillers                      *)

\* The trace holds the operation.
Did(op) == \E i \in 1..Len(trace) : trace[i].op = op

\* C28: a filler of steps 1 to 5 returns True only after its click on the
\* page-footer next/continue button succeeded during the call.
C28_TrueOnlyAfterNextClick ==
    (mpc = "returned" /\ stepNo \in 1..5 /\ ret = PyTrue) =>
        (Did("next") \/ Did("other"))

\* C29 as stated: with step6.submit false, submit_review never clicks the
\* submit button and returns True; otherwise it returns True only after the
\* click on the submit button succeeded.
C29_SubmitSwitch ==
    (mpc = "returned" /\ stepNo = StepCount) =>
        /\ args.submit = "false" => (~Did("next") /\ ret = PyTrue)
        /\ (args.submit # "false" /\ ret = PyTrue) => Did("next")

\* C29, amended: with step6.submit false, submit_review never clicks the
\* submit button, and returns True unless its wait raises, in which case it
\* returns False; otherwise it returns True only after the click on the
\* submit button succeeded.
C29_SubmitSwitchUnlessWaitRaises ==
    (mpc = "returned" /\ stepNo = StepCount) =>
        /\ args.submit = "false" =>
             /\ ~Did("next")
             /\ ret = IF args.fault = "body" THEN PyFalse ELSE PyTrue
        /\ (args.submit # "false" /\ ret = PyTrue) => Did("next")

C29_Witness ==
    /\ mpc = "returned"
    /\ stepNo = StepCount
    /\ args.submit = "false"
    /\ args.button = "footer"
    /\ ret = PyTrue
    /\ trace = <<>>

IsRunStep(ev) == ev.op = "run_step"

IsFillerCall(ev) == ev.op = "filler"

\* What run_step returned, one entry per turn of the loop of main.
RunSteps == SelectSeq(trace, IsRunStep)

\* The fillers main has called, in order.
FillerCalls == SelectSeq(trace, IsFillerCall)

\* C21: main runs the fillers in the order step 1 to step 6, starts step
\* k+1 only after step k reported success, and runs no step after the first
\* step that failed: the submit step never runs after a failed step.
C21_InOrderStopAtFirstFailure ==
    /\ \A i \in 1..Len(RunSteps) : RunSteps[i].step = i
    /\ \A i \in 1..(Len(RunSteps) - 1) : RunSteps[i].note = PyTrue
    /\ \A j \in 1..Len(FillerCalls) :
          /\ \A i \in 1..(j - 1) : FillerCalls[i].step < FillerCalls[j].step
          /\ \A k \in 1..(FillerCalls[j].step - 1) :
                \E i \in 1..Len(RunSteps) :
                    RunSteps[i].step = k /\ RunSteps[i].note = PyTrue

C21_Witness ==
    /\ mpc = "exited"
    /\ Len(RunSteps) = 2
    /\ Len(FillerCalls) = 2
    /\ RunSteps[1].note = PyTrue
    /\ RunSteps[2].note = PyFalse
    /\ Did("close")

\* C22: when the step function raises, run_step captures a screenshot
\* before it reports the step as failed.
C22_ScreenshotOnException ==
    (mpc = "returned" /\ args.idle /\ args.out.ret = Raised) =>
        (ret = PyFalse /\ Did("run_step screenshot"))

\* C24: when a filler called by main reaches its end without an exception
\* after its click on the next button, run_step returns True.
C24_ClickedNextMeansTrue ==
    \A i \in 1..Len(trace) :
        (/\ trace[i].op = "run_step"
         /\ \E j \in 1..i : /\ trace[j].op = "filler"
                            /\ trace[j].step = trace[i].step
                            /\ trace[j].note # PyFalse
         /\ \E j \in 1..i : trace[j].op = "next" /\ trace[j].step = trace[i].step)
        => trace[i].note = PyTrue

\* C30: once main has launched the browser, it eventually closes it.
C30_LaunchedLeadsToClosed == Did("launch") ~> Did("close")

\* The five stages of login_to_workday, in order.
LoginStages == <<"load", "sign_in", "existing", "create", "apply">>

\* C23: login_to_workday returns a boolean and never raises; a failing
\* stage yields False and ends the call; True is returned only when the
\* five stages succeeded in order.
C23_BooleanNeverRaises ==
    /\ ret # Raised
    /\ \A i \in 1..Len(trace) :
          /\ trace[i].op = LoginStages[i]
          /\ i < Len(trace) => trace[i].note = PyTrue
    /\ mpc = "returned" =>
          /\ ret \in {PyTrue, PyFalse}
          /\ ret = trace[Len(trace)].note
          /\ ret = PyTrue => Len(trace) = Len(LoginStages)

\* C25: for every kind of descriptor the extractor emits for a section
\* field, fill_input_field of step 2 acts on the field instead of ending in
\* its "Unknown input type" branch.
C25_EveryKindHasBranch ==
    mpc = "returned" => ~Did("Unknown input type")

\* The text the call filled into the input, or None when it filled none.
Filled(op) ==
    IF Did(op) THEN trace[CHOOSE i \in 1..Len(trace) : trace[i].op = op].note
    ELSE None

\* C26: for a date field, fill_input_field fills MM and YYYY of "MM/YYYY"
\* into the month and year inputs, and MM, DD and YYYY of "MM/DD/YYYY" into
\* the month, day and year inputs.
C26_DateParts ==
    (mpc = "returned" /\ args.field.type_of_input = "date") =>
        LET parts == Split(args.value, "/")
        IN  /\ Len(parts) = 2 =>
                /\ Filled("fill dateSectionMonth-input") = parts[1]
                /\ Filled("fill dateSectionYear-input") = parts[2]
            /\ Len(parts) = 3 =>
                /\ Filled("fill dateSectionMonth-input") = parts[1]
                /\ Filled("fill dateSectionDay-input") = parts[2]
                /\ Filled("fill dateSectionYear-input") = parts[3]

\* C27: when the step 3 configuration supplies no value for a question, a
\* question that mentions sponsorship or visa gets the answer "No",
\* whatever other words it contains.
C27_SponsorshipDefaultsToNo ==
    LET question_lower == Lower(args.question_text)
    IN  (/\ mpc = "returned"
         /\ PatternValue(question_lower, args.step3) = None
         /\ WordValue(question_lower, args.step3) = None
         /\ AnyIn(question_lower, {<<"s", "p", "o", "n", "s", "o", "r", "s", "h", "i", "p">>, <<"v", "i", "s", "a">>}))
        => ret = No


====
